---- MODULE Spec2Model ----
(***************************************************************************)
(* A model of the coordination layer of venturemind:                       *)
(*   - the five atomic store operations of core/atomic_operations.py       *)
(*     (Lua scripts run by the store, each one indivisible),               *)
(*   - the connection registry of core/websocket_manager.py,               *)
(*   - the workflow graph of orchestration/supervisor.py.                   *)
(* Each subsystem has its own specification (SpecAgents, SpecDoc, SpecRate, *)
(* SpecChan, SpecWs, SpecSup); the variables of the other subsystems stay   *)
(* at their quiet initial value.                                            *)
(***************************************************************************)
EXTENDS Integers, Sequences, FiniteSets, TLC

\* The value of an absent key or field (Lua false / Python None).
Nil == "nil"

\***************************************************************************
\* Bounds of the model
\***************************************************************************
\* Number of store calls recorded in one behaviour.
MaxCalls == 3

Agents == {"a1", "a2"}
TaskIds == {"t1", "t2"}
Coordinators == {"sup"}

\* The agent lists a coordinate_agents call may carry (JSON arrays).
AgentLists ==
    {<<>>} \cup {<<a>> : a \in Agents} \cup {<<a, b>> : a \in Agents, b \in Agents}

\* Status values a front end may have stored for an agent before any call.
StartStatuses == {"idle", "active", "disconnected"}

\* Documents, their editors, and the expected_version values a caller passes.
Docs == {"d1"}
Users == {"A", "B"}
MaxVersion == 2
\* Number of edits, disconnects and lock expiries recorded in one behaviour.
MaxDocCalls == 3

\* Rate limiter: the limits and windows (seconds) a key is used with, the
\* seconds the clock runs, and the calls made.
MaxLimit == 2
MaxWindow == 2
MaxTime == 3
MaxRateCalls == 3

\* Ordered channel: the publishers, their texts, and the calls made.  The
\* script keeps the newest 1000 messages (lines 172-176); the model keeps
\* the newest LogCap, so that eviction happens within MaxPublish calls.
Senders == {"p1", "p2"}
Texts == {"m1", "m2"}
LogCap == 2
MaxPublish == 4

\* Registry connections (uuid4 ids) and the sessions they join; the unified
\* manager names a connection after its session.
ConnOrder == <<"c1", "c2", "c3">>
ConnIds == {ConnOrder[i] : i \in 1..Len(ConnOrder)}
\* The connection ids of the specifications that open two connections.
PairConnIds == {"c1", "c2"}
Sessions == {"s1", "s2"}

\* Registry agents, the data messages sent to them (numbered as they are
\* sent), the pause_agent calls and the heartbeat pings of one behaviour.
WsAgents == {"X"}
MaxMsgs == 3
MaxPauses == 1
MaxResumes == 1
\* Number of direct sends and broadcasts in one behaviour of the registry.
MaxRegCalls == 2

\* The unified endpoint: the WebSocket objects that may be opened, the
\* channels and contexts subscribed to, and the client messages handled and
\* broadcasts made.
Sockets == {"w1", "w2", "w3"}
Channels == {"conversation"}
Contexts == {"ctx"}
MaxUniMsgs == 3
ChatChannels == {"conversation", "agent"}
MaxChatMsgs == 3
ChatSockets == {"w1", "w2"}

\* The Supervisor: the agent names Reasoning may give (one of them is not
\* registered), the iteration limit the Supervisor is built with (50 when
\* the caller gives none), and the passes through the supervisor node after
\* which a behaviour is followed no further.
SupAgents == {"researcher", "ghost"}
MaxIterations == 2
MaxPasses == 3

VARIABLES
    redis_ok,       \* redis_manager.redis is set (connect has made the client)
    redis_up,       \* the store answers the commands of the client
    calls,          \* the store calls made so far, with what each returned
    \* -- agents and coordination groups (shared store)
    agent,          \* hash agent:<id>: status, current_task, coordination_group
    task_store,     \* the live task:<id> keys (SETEX payloads)
    agent_tasks,    \* list agent:<id>:tasks, head first
    coord,          \* hash coord:<task_id>, every field Nil while absent
    coord_members,  \* set coord:<task_id>:members
    agent0,         \* history: the agent hashes before the first call
    \* -- documents (shared store)
    doc,            \* hash doc:<id>: version, last_editor, updated_at
    doc_history,    \* list doc:<id>:history, newest first
    doc_lock,       \* key lock:doc:<id>: the owner, Nil while absent
    doc_release,    \* release_document_lock calls between their GET and DELETE
    \* -- rate limiter (shared store)
    rate_set,       \* sorted set of one key: its members (member = score = time)
    rate_ttl,       \* seconds until the key expires, 0 when it has no TTL
    rate_now,       \* the wall clock, int(time())
    rate_cfg,       \* the limit and window the callers of the key pass
    rate_admitted,  \* history: the timestamps of the admitted calls
    \* -- ordered channel (shared store)
    chan_seq,       \* <channel>:meta sequence
    chan_log,       \* sorted set <channel>:messages
    chan_pub,       \* history: what PUBLISH sent to the subscribers, in order
    \* -- connection registries (in process)
    ws,             \* the WebSocketManager's dictionaries
    ws_broken,      \* connections whose transport fails the next send
    ws_used,        \* connection ids handed out so far (uuid4 never repeats)
    ws_hist,        \* history of the pause/resume scenario of each agent
    uni,            \* the UnifiedConnectionManager's dictionaries
    \* -- supervisor workflow
    sup,            \* the ConversationState of the run
    sup_pc,         \* the node of the graph the run is at
    sup_env,        \* the collaborators: how Reasoning and the agents behave
    sup_hist        \* history: passes, Reasoning calls, agent executions

agentVars == <<agent, task_store, agent_tasks, coord, coord_members, agent0>>
docVars == <<doc, doc_history, doc_lock, doc_release>>
rateVars == <<rate_set, rate_ttl, rate_now, rate_cfg, rate_admitted>>
chanVars == <<chan_seq, chan_log, chan_pub>>
wsVars == <<ws, ws_broken, ws_used, ws_hist>>
supVars == <<sup, sup_pc, sup_env, sup_hist>>
vars == <<redis_ok, redis_up, calls, agentVars, docVars, rateVars, chanVars, wsVars, uni, supVars>>

\* What the operations of one subsystem leave alone.
notAgents == <<docVars, rateVars, chanVars, wsVars, uni, supVars>>
notDocs == <<agentVars, rateVars, chanVars, supVars>>
notRate == <<agentVars, docVars, chanVars, wsVars, uni, supVars>>
notChan == <<agentVars, docVars, rateVars, wsVars, uni, supVars>>
notWs == <<agentVars, docVars, rateVars, chanVars, uni, supVars>>
notSup == <<agentVars, docVars, rateVars, chanVars, wsVars, uni>>
notUni == <<agentVars, docVars, rateVars, chanVars, wsVars, supVars>>

\* The elements of a sequence.
Range(s) == {s[i] : i \in 1..Len(s)}

\* Dictionaries: functions whose domain is the set of keys present.
EmptyMap == [x \in {} |-> Nil]
Put(f, k, v) == [x \in DOMAIN f \cup {k} |-> IF x = k THEN v ELSE f[x]]
Drop(f, k) == [x \in DOMAIN f \ {k} |-> f[x]]

\* The order in which a set is iterated.
RECURSIVE SetToSeq(_)
SetToSeq(S) ==
    IF S = {} THEN <<>>
    ELSE LET x == CHOOSE y \in S : TRUE IN <<x>> \o SetToSeq(S \ {x})

\* What the call log holds for an operation that ended in an exception the
\* operation does not catch: the script call (atomic_operations.py, lines
\* 195, 219, 251, 277 and 304) raises when the store does not answer.
Raised(op) == [op |-> "raise", from |-> op, error |-> "ConnectionError"]

\* The value every variable of a subsystem keeps while another one runs.
AgentsQuiet ==
    /\ agent = Nil /\ task_store = Nil /\ agent_tasks = Nil
    /\ coord = Nil /\ coord_members = Nil /\ agent0 = Nil
DocQuiet == doc = Nil /\ doc_history = Nil /\ doc_lock = Nil /\ doc_release = Nil
RateQuiet ==
    /\ rate_set = Nil /\ rate_ttl = Nil /\ rate_now = Nil
    /\ rate_cfg = Nil /\ rate_admitted = Nil
ChanQuiet == chan_seq = Nil /\ chan_log = Nil /\ chan_pub = Nil
WsQuiet == ws = Nil /\ ws_broken = Nil /\ ws_used = Nil /\ ws_hist = Nil
UniQuiet == uni = Nil
SupQuiet == sup = Nil /\ sup_pc = Nil /\ sup_env = Nil /\ sup_hist = Nil

\***************************************************************************
\* assign_task (atomic_operations.py, script 'assign_task')
\***************************************************************************
\* An availability test that lets a working agent through.
AgentAvailableOrWorking(status) == status \in {"active", "idle", "working"}

\* Lines 33 and 100: the availability test of a stored status.
AgentAvailable(status) == status = "active" \/ status = "idle"

TaskKey(task_id) == <<"task", task_id>>

\* The script's reply for agent a in the current state.
AssignReply(a) ==
    IF ~AgentAvailable(agent[a].status) THEN [ok |-> FALSE, reason |-> "Agent not available"]
    ELSE IF agent[a].current_task # Nil THEN [ok |-> FALSE, reason |-> "Agent busy"]
    ELSE [ok |-> TRUE, reason |-> "Task assigned"]

assign_task_to_agent(a, t) ==
    /\ Len(calls) < MaxCalls
    /\ IF ~redis_ok
       THEN /\ calls' = Append(calls, [op |-> "assign_task", agent |-> a, task |-> t,
                                       ok |-> FALSE, reason |-> "Redis not connected"])
            /\ UNCHANGED <<agent, task_store, agent_tasks, coord, coord_members>>
       ELSE IF ~redis_up
       THEN /\ calls' = Append(calls, Raised("assign_task"))
            /\ UNCHANGED <<agent, task_store, agent_tasks, coord, coord_members>>
       ELSE LET r == AssignReply(a) IN
            /\ calls' = Append(calls, [op |-> "assign_task", agent |-> a, task |-> t,
                                       ok |-> r.ok, reason |-> r.reason])
            /\ IF r.ok
               THEN /\ agent' = [agent EXCEPT ![a].current_task = TaskKey(t),
                                              ![a].status = "working"]
                    /\ task_store' = task_store \cup {TaskKey(t)}
                    /\ agent_tasks' = [agent_tasks EXCEPT ![a] = <<TaskKey(t)>> \o @]
                    /\ UNCHANGED <<coord, coord_members>>
               ELSE UNCHANGED <<agent, task_store, agent_tasks, coord, coord_members>>
    /\ UNCHANGED <<redis_ok, redis_up, agent0, notAgents>>

\* A store in which the expiry of a task payload frees the agent that
\* holds the task.
TaskExpireFreesAgent(k) ==
    /\ k \in task_store
    /\ task_store' = task_store \ {k}
    /\ agent' = [a \in Agents |->
                    IF k = agent[a].current_task
                    THEN [agent[a] EXCEPT !.current_task = Nil, !.status = "idle"]
                    ELSE agent[a]]
    /\ UNCHANGED <<redis_ok, redis_up, agent_tasks, coord, coord_members, agent0, calls, notAgents>>

\* The TTL of a task payload runs out: the store drops the key.
TaskExpire(k) ==
    /\ k \in task_store
    /\ task_store' = task_store \ {k}
    /\ UNCHANGED <<redis_ok, redis_up, agent, agent_tasks, coord, coord_members, agent0, calls, notAgents>>

\***************************************************************************
\* coordinate_agents (atomic_operations.py, script 'coordinate_agents')
\***************************************************************************
\* A script that tests only the first listed agent.
UnavailableAgentsFirstOnly(ids) ==
    IF Len(ids) > 0 /\ ~(agent[ids[1]].status = "active" \/ agent[ids[1]].status = "idle")
    THEN <<ids[1]>> ELSE <<>>

\* Lines 97-103: the listed agents whose status is neither active nor idle,
\* in list order.
UnavailableAgents(ids) == SelectSeq(ids, LAMBDA a : ~AgentAvailable(agent[a].status))

coordinate_agents(tid, cid, ids) ==
    /\ Len(calls) < MaxCalls
    /\ IF ~redis_ok
       THEN /\ calls' = Append(calls, [op |-> "coordinate_agents", task |-> tid, agents |-> ids,
                                       ok |-> FALSE, reason |-> "Redis not connected",
                                       extra |-> Nil])
            /\ UNCHANGED <<agent, task_store, agent_tasks, coord, coord_members>>
       ELSE IF ~redis_up
       THEN /\ calls' = Append(calls, Raised("coordinate_agents"))
            /\ UNCHANGED <<agent, task_store, agent_tasks, coord, coord_members>>
       ELSE LET unavailable == UnavailableAgents(ids) IN
            IF Len(unavailable) > 0
            THEN /\ calls' = Append(calls, [op |-> "coordinate_agents", task |-> tid,
                                            agents |-> ids, ok |-> FALSE,
                                            reason |-> "Agents unavailable",
                                            extra |-> unavailable])
                 /\ UNCHANGED <<agent, task_store, agent_tasks, coord, coord_members>>
            ELSE /\ calls' = Append(calls, [op |-> "coordinate_agents", task |-> tid,
                                            agents |-> ids, ok |-> TRUE,
                                            reason |-> "Coordination established",
                                            extra |-> tid])
                 /\ coord' = [coord EXCEPT ![tid] = [coordinator |-> cid, agents |-> ids,
                                                     status |-> "active"]]
                 /\ agent' = [a \in Agents |->
                                IF a \in Range(ids)
                                THEN [agent[a] EXCEPT !.coordination_group = tid,
                                                      !.status = "coordinating"]
                                ELSE agent[a]]
                 /\ coord_members' = [coord_members EXCEPT ![tid] = @ \cup Range(ids)]
                 /\ UNCHANGED <<task_store, agent_tasks>>
    /\ UNCHANGED <<redis_ok, redis_up, agent0, notAgents>>

\***************************************************************************
\* Specification of the agent store
\***************************************************************************
AgentsInit ==
    /\ agent \in [Agents -> [status : StartStatuses, current_task : {Nil},
                             coordination_group : {Nil}]]
    /\ task_store = {}
    /\ agent_tasks = [a \in Agents |-> <<>>]
    /\ coord = [t \in TaskIds |-> [coordinator |-> Nil, agents |-> <<>>, status |-> Nil]]
    /\ coord_members = [t \in TaskIds |-> {}]
    /\ agent0 = agent

InitAgents ==
    /\ redis_ok = TRUE
    /\ redis_up = TRUE
    /\ calls = <<>>
    /\ AgentsInit
    /\ DocQuiet /\ RateQuiet /\ ChanQuiet /\ WsQuiet /\ UniQuiet /\ SupQuiet

AssignStep == \E a \in Agents, t \in TaskIds : assign_task_to_agent(a, t)
CoordinateStep ==
    \E tid \in TaskIds, cid \in Coordinators, ids \in AgentLists : coordinate_agents(tid, cid, ids)
TaskExpireStep == \E k \in task_store : TaskExpire(k)

NextAgents == AssignStep \/ CoordinateStep \/ TaskExpireStep

SpecAgents == InitAgents /\ [][NextAgents]_vars

\***************************************************************************
\* Properties of the agent store
\***************************************************************************
\* The assign_task calls made on agent a, as positions of the call log.
AssignCalls(a) ==
    {i \in 1..Len(calls) : calls[i].op = "assign_task" /\ calls[i].agent = a}

\* C1: for an agent stored as idle or active with no current_task (and not
\* taken into a coordination group meanwhile), the assign_task calls made on
\* it yield exactly one success, and every other call fails with the reason
\* 'Agent busy'.
C1_OneSuccessOthersBusy ==
    \A a \in Agents :
        LET made == AssignCalls(a)
            won == {i \in made : calls[i].ok}
        IN  ( /\ agent0[a].status \in {"idle", "active"}
              /\ agent0[a].current_task = Nil
              /\ agent[a].coordination_group = Nil
              /\ made # {} )
            => /\ Cardinality(won) = 1
               /\ \A i \in made \ won : calls[i].reason = "Agent busy"

\* The part of C1 the script does give: exactly one of the calls succeeds, and
\* the others are refused (as 'Agent not available', the status being working).
C1_OneSuccessOthersRefused ==
    \A a \in Agents :
        LET made == AssignCalls(a)
            won == {i \in made : calls[i].ok}
        IN  ( /\ agent0[a].status \in {"idle", "active"}
              /\ agent0[a].current_task = Nil
              /\ agent[a].coordination_group = Nil
              /\ made # {} )
            => /\ Cardinality(won) = 1
               /\ \A i \in made \ won : calls[i].reason = "Agent not available"

\* C3: coordinate_agents is all-or-nothing.  A call listing an agent whose
\* status is neither active nor idle fails, returns exactly those agents and
\* changes no agent hash and no coordination group; a call whose listed
\* agents are all available leaves every one of them with
\* coordination_group = task_id and status = coordinating.  No state between
\* the two is ever visible: in every state the agents listed by a stored
\* group are all in it.
C3_NoPartialGroup ==
    \A tid \in TaskIds :
        coord[tid].status # Nil =>
            \A a \in Range(coord[tid].agents) :
                agent[a].coordination_group = tid /\ agent[a].status = "coordinating"

C3_CoordinateStep ==
    (Len(calls') = Len(calls) + 1 /\ calls'[Len(calls')].op = "coordinate_agents") =>
        LET c == calls'[Len(calls')]
            bad == {a \in Range(c.agents) : agent[a].status \notin {"active", "idle"}}
        IN  IF bad # {}
            THEN /\ ~c.ok
                 /\ c.reason = "Agents unavailable"
                 /\ Range(c.extra) = bad
                 /\ agent' = agent
                 /\ coord' = coord
                 /\ coord_members' = coord_members
            ELSE /\ c.ok
                 /\ coord'[c.task].status = "active"
                 /\ coord'[c.task].agents = c.agents
                 /\ \A a \in Range(c.agents) :
                        /\ agent'[a].coordination_group = c.task
                        /\ agent'[a].status = "coordinating"
                 /\ \A a \in Agents \ Range(c.agents) : agent'[a] = agent[a]

C3_AllOrNothing == []C3_NoPartialGroup /\ [][C3_CoordinateStep]_vars

\* A refused call listing one available and one unavailable agent, and an
\* accepted call.
C3_Witness ==
    /\ \E i \in 1..Len(calls) :
          /\ calls[i].op = "coordinate_agents"
          /\ ~calls[i].ok
          /\ Len(calls[i].agents) = 2
          /\ Len(calls[i].extra) = 1
    /\ \E j \in 1..Len(calls) :
          /\ calls[j].op = "coordinate_agents"
          /\ calls[j].ok
          /\ Len(calls[j].agents) >= 1


\* The first successful coordinate_agents call for task tid: the call that
\* created its group.
GroupCreation(tid) ==
    LET created == SelectSeq(calls, LAMBDA c : c.op = "coordinate_agents" /\ c.ok
                                               /\ c.task = tid)
    IN  created[1]

GroupCreated(tid) ==
    \E i \in 1..Len(calls) :
        calls[i].op = "coordinate_agents" /\ calls[i].ok /\ calls[i].task = tid

\* C15: once the coordination group of a task_id has been created, its
\* members stay those of its creation, whatever is called later, a
\* coordinate_agents call with the same task_id and other agents included.
C15_MembersNeverChange ==
    \A tid \in TaskIds :
        GroupCreated(tid) =>
            /\ coord_members[tid] = Range(GroupCreation(tid).agents)
            /\ coord[tid].agents = GroupCreation(tid).agents

\* C11: starting from agents with no current_task, under any sequence of
\* assign_task and coordinate_agents calls, an agent's current_task is set
\* only while its status is working.
C11_TaskOnlyWhileWorking ==
    \A a \in Agents : agent[a].current_task # Nil => agent[a].status = "working"

\* An agent was assigned a task, and a later coordinate_agents call that
\* listed it was refused.
C11_Witness ==
    \E i, j \in 1..Len(calls) :
        /\ i < j
        /\ calls[i].op = "assign_task" /\ calls[i].ok
        /\ calls[j].op = "coordinate_agents" /\ ~calls[j].ok
        /\ calls[i].agent \in Range(calls[j].agents)
        /\ agent[calls[i].agent].current_task # Nil

\* The call made in this step, if any, is an assign_task on agent a or a
\* coordinate_agents that lists it.
CallsOn(a) ==
    /\ Len(calls') = Len(calls) + 1
    /\ LET c == calls'[Len(calls')]
       IN  \/ c.op = "assign_task" /\ c.agent = a
           \/ c.op = "coordinate_agents" /\ a \in Range(c.agents)

\* C38: a successful assign_task leaves the agent working with its
\* current_task set, and from then on every step (a call or the expiry of a
\* task payload) leaves the agent's hash as it is, and every assign_task on
\* the agent and every coordinate_agents that lists it fails.
C38_WorkingStep ==
    \A a \in Agents :
        /\ (CallsOn(a) /\ calls'[Len(calls')].op = "assign_task" /\ calls'[Len(calls')].ok) =>
              /\ agent'[a].status = "working"
              /\ TaskKey(calls'[Len(calls')].task) = agent'[a].current_task
        /\ (agent[a].status = "working" /\ agent[a].current_task # Nil) =>
              /\ agent'[a] = agent[a]
              /\ CallsOn(a) => ~calls'[Len(calls')].ok
C38_AssignedAgentStaysWorking == [][C38_WorkingStep]_vars

\* The payload of an assigned task has expired, the agent is still working
\* on it, and an assign_task on the agent and a coordinate_agents listing
\* it have both been refused since the assignment.
C38_Witness ==
    \E a \in Agents :
        /\ agent[a].status = "working"
        /\ agent[a].current_task # Nil
        /\ agent[a].current_task \notin task_store
        /\ \E i, j, k \in 1..Len(calls) :
              /\ i < j /\ i < k
              /\ calls[i].op = "assign_task" /\ calls[i].agent = a /\ calls[i].ok
              /\ calls[j].op = "assign_task" /\ calls[j].agent = a /\ ~calls[j].ok
              /\ calls[k].op = "coordinate_agents" /\ a \in Range(calls[k].agents)
              /\ ~calls[k].ok


\***************************************************************************
\* WebSocketManager (core/websocket_manager.py)
\*
\* The manager runs on one event loop: a handler runs undisturbed up to an
\* await that suspends.  disconnect suspends at the gather of its
\* 'connection_left' broadcast (line 168) when the session has other members,
\* and resumes at line 181; resume_agent suspends at each send of its drain.
\* The sends of a broadcast are taken with the step that starts them.
\***************************************************************************
Msg(type, id, who) == [type |-> type, id |-> id, who |-> who]

\* __init__ (lines 46-66), with what the transports and the loop hold:
\* delivered - the frames each transport accepted, in order;
\* disc_pending - the disconnect calls suspended at line 168, per connection;
\* send_pending - the send_to_connection calls whose disconnect (line 196) is
\* suspended at line 168, per connection;
\* draining - the agents with a resume_agent call inside its drain loop;
\* raised - the exceptions that escaped a handler, and the loops that never end;
\* sent, pauses, resumes - how many data messages, pause_agent calls and
\* resume_agent calls there have been.
WsEmpty ==
    [connections |-> EmptyMap, sessions |-> EmptyMap, user_connections |-> EmptyMap,
     agent_connections |-> EmptyMap, agent_states |-> EmptyMap,
     message_queues |-> EmptyMap, document_locks |-> EmptyMap,
     delivered |-> [c \in ConnIds |-> <<>>],
     disc_pending |-> [c \in ConnIds |-> 0],
     send_pending |-> [c \in ConnIds |-> 0],
     draining |-> {},
     raised |-> {},
     sent |-> 0, pauses |-> 0, resumes |-> 0]

RECURSIVE ws_disconnect(_, _)
RECURSIVE ws_broadcast(_, _, _)

\* send_to_connection (lines 183-197): the manager after the call, and the
\* value returned.  When the disconnect of line 196 suspends, the call is
\* counted in send_pending and ok is what it returns if it does return.
send_to_connection(w, c, msg) ==
    IF c \notin DOMAIN w.connections THEN [w |-> w, ok |-> FALSE]
    ELSE IF c \notin ws_broken
         THEN [w |-> [w EXCEPT !.delivered[c] = Append(@, msg)], ok |-> TRUE]
         ELSE LET w1 == ws_disconnect(w, c)
              IN  IF w1.disc_pending[c] > w.disc_pending[c]
                  THEN [w |-> [w1 EXCEPT !.disc_pending[c] = @ - 1,
                                         !.send_pending[c] = @ + 1],
                        ok |-> FALSE]
                  ELSE [w |-> w1, ok |-> FALSE]

\* A gather that gives up at the first send that fails.
RECURSIVE ws_broadcast_abort(_, _, _)
ws_broadcast_abort(w, targets, msg) ==
    IF targets = <<>> THEN w
    ELSE LET r == send_to_connection(w, Head(targets), msg)
         IN  IF r.ok THEN ws_broadcast_abort(r.w, Tail(targets), msg) ELSE r.w

\* The sends of one gather (lines 212-218), over the list of targets.
ws_broadcast(w, targets, msg) ==
    IF targets = <<>> THEN w
    ELSE ws_broadcast(send_to_connection(w, Head(targets), msg).w, Tail(targets), msg)

\* The connections a broadcast to session sid sends to (lines 208-215).
BroadcastTargets(w, sid, exclude) ==
    IF sid \notin DOMAIN w.sessions THEN {} ELSE w.sessions[sid] \ {exclude}

broadcast_to_session(w, sid, msg, exclude) ==
    ws_broadcast(w, SetToSeq(BroadcastTargets(w, sid, exclude)), msg)

\* Lines 162-165: the locks left after those of user_id are released.
ReleaseLocksOf(locks, user_id) ==
    [d \in {x \in DOMAIN locks : locks[x] # user_id} |-> locks[d]]

\* disconnect up to its suspension (lines 138-178), and line 181 as well when
\* the broadcast has nobody to send to.
ws_disconnect(w, c) ==
    IF c \notin DOMAIN w.connections THEN w
    ELSE
    LET conn == w.connections[c]
        sid == conn.session_id
        sessions1 ==
            IF sid \notin DOMAIN w.sessions THEN w.sessions
            ELSE IF w.sessions[sid] \ {c} = {} THEN Drop(w.sessions, sid)
            ELSE [w.sessions EXCEPT ![sid] = @ \ {c}]
        users1 ==
            IF conn.user_id = Nil \/ conn.user_id \notin DOMAIN w.user_connections
            THEN w.user_connections
            ELSE IF w.user_connections[conn.user_id] \ {c} = {}
                 THEN Drop(w.user_connections, conn.user_id)
                 ELSE [w.user_connections EXCEPT ![conn.user_id] = @ \ {c}]
        agents1 ==
            IF conn.agent_id # Nil THEN Drop(w.agent_connections, conn.agent_id)
            ELSE w.agent_connections
        states1 ==
            IF conn.agent_id # Nil /\ conn.agent_id \in DOMAIN w.agent_states
            THEN [w.agent_states EXCEPT ![conn.agent_id].status = "disconnected"]
            ELSE w.agent_states
        w1 == [w EXCEPT !.sessions = sessions1, !.user_connections = users1,
                        !.agent_connections = agents1, !.agent_states = states1,
                        !.document_locks = ReleaseLocksOf(w.document_locks, conn.user_id)]
        targets == BroadcastTargets(w1, sid, c)
        w2 == broadcast_to_session(w1, sid, Msg("connection_left", 0, c), c)
    IN  IF targets # {}
        THEN [w2 EXCEPT !.disc_pending[c] = @ + 1]
        ELSE [w2 EXCEPT !.connections = Drop(@, c)]

\* Line 181, reached when the gather of line 168 has finished.
ws_disconnect_finish(w, c) ==
    IF c \in DOMAIN w.connections
    THEN [w EXCEPT !.connections = Drop(@, c), !.disc_pending[c] = @ - 1]
    ELSE [w EXCEPT !.raised = @ \cup {<<"disconnect", "KeyError", c>>},
                   !.disc_pending[c] = @ - 1]

\* The disconnect inside a send_to_connection call reaches line 181: the
\* call returns False (line 197), or the KeyError of line 181 leaves it.
send_to_connection_finish(w, c) ==
    IF c \in DOMAIN w.connections
    THEN [w EXCEPT !.connections = Drop(@, c), !.send_pending[c] = @ - 1]
    ELSE [w EXCEPT !.raised = @ \cup {<<"send_to_connection", "KeyError", c>>},
                   !.send_pending[c] = @ - 1]

\* A connect that starts the member set of its session anew.
ws_connect_alone(w, c, sid, kind, user_id, agent_id) ==
    LET w1 == [w EXCEPT
                 !.connections = Put(@, c, [session_id |-> sid, connection_type |-> kind,
                                            user_id |-> user_id, agent_id |-> agent_id]),
                 !.sessions = Put(@, sid, {c}),
                 !.user_connections =
                     IF user_id = Nil THEN @
                     ELSE Put(@, user_id, (IF user_id \in DOMAIN @ THEN @[user_id] ELSE {}) \cup {c}),
                 !.agent_connections = IF agent_id = Nil THEN @ ELSE Put(@, agent_id, c),
                 !.agent_states =
                     IF agent_id = Nil THEN @
                     ELSE Put(@, agent_id, [status |-> "connected", paused |-> FALSE,
                                            current_task |-> Nil])]
    IN  broadcast_to_session(w1, sid, Msg("connection_joined", 0, c), c)

\* connect (lines 68-132).
ws_connect(w, c, sid, kind, user_id, agent_id) ==
    LET w1 == [w EXCEPT
                 !.connections = Put(@, c, [session_id |-> sid, connection_type |-> kind,
                                            user_id |-> user_id, agent_id |-> agent_id]),
                 !.sessions = Put(@, sid, (IF sid \in DOMAIN @ THEN @[sid] ELSE {}) \cup {c}),
                 !.user_connections =
                     IF user_id = Nil THEN @
                     ELSE Put(@, user_id, (IF user_id \in DOMAIN @ THEN @[user_id] ELSE {}) \cup {c}),
                 !.agent_connections = IF agent_id = Nil THEN @ ELSE Put(@, agent_id, c),
                 !.agent_states =
                     IF agent_id = Nil THEN @
                     ELSE Put(@, agent_id, [status |-> "connected", paused |-> FALSE,
                                            current_task |-> Nil])]
    IN  broadcast_to_session(w1, sid, Msg("connection_joined", 0, c), c)

\* acquire_document_lock (lines 283-291): the manager after, and the result.
ws_acquire_document_lock(w, d, user_id) ==
    IF d \in DOMAIN w.document_locks
    THEN [w |-> w, ok |-> w.document_locks[d] = user_id]
    ELSE [w |-> [w EXCEPT !.document_locks = Put(@, d, user_id)], ok |-> TRUE]

\* release_document_lock (lines 293-300).
ws_release_document_lock(w, d, user_id) ==
    IF d \in DOMAIN w.document_locks /\ w.document_locks[d] = user_id
    THEN [w |-> [w EXCEPT !.document_locks = Drop(@, d)], ok |-> TRUE]
    ELSE [w |-> w, ok |-> FALSE]

\* Lines 226-228 and 235-237: the message joins the agent's queue.
QueuePut(w, a, msg) ==
    [w EXCEPT !.message_queues =
        Put(@, a, Append(IF a \in DOMAIN @ THEN @[a] ELSE <<>>, msg))]

\* A queue that hands out its newest message first.
QueueGetNewest(queue) == [msg |-> queue[Len(queue)], rest |-> SubSeq(queue, 1, Len(queue) - 1)]

\* Line 270, queue.get(): the oldest message, and the queue without it.
QueueGet(queue) == [msg |-> Head(queue), rest |-> Tail(queue)]

\* A test of the paused flag that never finds it set.
IsPausedNever(w, a) == FALSE

\* Line 234.
IsPaused(w, a) == a \in DOMAIN w.agent_states /\ w.agent_states[a].paused

\* send_to_agent (lines 220-240): the manager after the call, and the result.
send_to_agent(w, a, msg) ==
    IF a \notin DOMAIN w.agent_connections THEN [w |-> QueuePut(w, a, msg), ok |-> FALSE]
    ELSE IF IsPaused(w, a) THEN [w |-> QueuePut(w, a, msg), ok |-> TRUE]
    ELSE send_to_connection(w, w.agent_connections[a], msg)

\* pause_agent (lines 242-257).
pause_agent(w, a) ==
    IF a \in DOMAIN w.agent_states
    THEN send_to_agent([w EXCEPT !.agent_states[a].paused = TRUE], a,
                       Msg("control", 0, "pause")).w
    ELSE w

\* The drain loop of resume_agent (lines 267-271) from its test up to the
\* next send that suspends, and lines 273-280 when the queue is empty.  An
\* iteration whose message goes back to the queue (the agent is paused again,
\* or has no connection) does not suspend, and no later one can: the loop
\* never ends.
ResumeDrain(w, a) ==
    IF a \notin DOMAIN w.message_queues \/ w.message_queues[a] = <<>>
    THEN [send_to_agent(w, a, Msg("control", 0, "resume")).w EXCEPT !.draining = @ \ {a}]
    ELSE IF a \notin DOMAIN w.agent_connections \/ IsPaused(w, a)
    THEN [w EXCEPT !.raised = @ \cup {<<"resume_agent", "never ends", a>>},
                   !.draining = @ \cup {a}]
    ELSE LET got == QueueGet(w.message_queues[a])
             w1 == [w EXCEPT !.message_queues[a] = got.rest, !.draining = @ \cup {a}]
         IN  send_to_agent(w1, a, got.msg).w

\* resume_agent (lines 259-281) up to its first suspension.
resume_agent(w, a) ==
    IF a \in DOMAIN w.agent_states
    THEN ResumeDrain([w EXCEPT !.agent_states[a].paused = FALSE], a)
    ELSE w

\* A handler spins for ever: the event loop runs nothing else.
WsHung(w) == \E r \in w.raised : r[2] = "never ends"

\***************************************************************************
\* UnifiedConnectionManager (api/v1/unified_websocket.py)
\***************************************************************************
\* __init__ (lines 34-39), with what the endpoints and the transports hold:
\* endpoints - the connection_id (line 229) of each running endpoint, by its
\* WebSocket; delivered - the frames each WebSocket accepted, in order;
\* sent - how many client messages and broadcasts there have been.
UniEmpty ==
    [connections |-> EmptyMap, subscriptions |-> EmptyMap,
     authenticated_users |-> EmptyMap, context_connections |-> EmptyMap,
     endpoints |-> EmptyMap,
     delivered |-> [s \in Sockets |-> <<>>],
     sent |-> 0]

\* Line 45: the connection id is derived from the session id alone.
UniConnId(sid) == <<"unified", sid>>

\* connect (lines 41-55).
uni_connect(u, websocket, sid, user) ==
    [u EXCEPT !.connections = Put(@, UniConnId(sid), websocket),
              !.subscriptions = Put(@, UniConnId(sid), {}),
              !.authenticated_users = IF user = Nil THEN @ ELSE Put(@, UniConnId(sid), user)]

\* disconnect (lines 57-74).
uni_disconnect(u, c) ==
    LET ctx1 == [x \in DOMAIN u.context_connections |-> u.context_connections[x] \ {c}]
    IN  [u EXCEPT !.connections = Drop(@, c),
                  !.subscriptions = Drop(@, c),
                  !.authenticated_users = Drop(@, c),
                  !.context_connections = [x \in {y \in DOMAIN ctx1 : ctx1[y] # {}} |-> ctx1[x]]]

\* Lines 79 and 93, f"{channel}:{context_id}" or the channel alone.
ChannelKey(channel, context_id) == [channel |-> channel, context |-> context_id]

\* subscribe (lines 76-88).
uni_subscribe(u, c, channel, context_id) ==
    IF c \notin DOMAIN u.subscriptions THEN u
    ELSE [u EXCEPT !.subscriptions[c] = @ \cup {ChannelKey(channel, context_id)},
                   !.context_connections =
                       IF context_id = Nil THEN @
                       ELSE Put(@, context_id,
                                (IF context_id \in DOMAIN @ THEN @[context_id] ELSE {}) \cup {c})]

\* unsubscribe (lines 90-102).
uni_unsubscribe(u, c, channel, context_id) ==
    IF c \notin DOMAIN u.subscriptions THEN u
    ELSE [u EXCEPT !.subscriptions[c] = @ \ {ChannelKey(channel, context_id)},
                   !.context_connections =
                       IF context_id = Nil \/ context_id \notin DOMAIN @ THEN @
                       ELSE IF @[context_id] \ {c} = {} THEN Drop(@, context_id)
                       ELSE [@ EXCEPT ![context_id] = @ \ {c}]]

\* send_to_connection (lines 104-113): the frame goes to the WebSocket
\* registered under the id; a WebSocket whose endpoint has ended refuses it.
uni_send_to_connection(u, c, msg) ==
    IF c \notin DOMAIN u.connections THEN u
    ELSE IF u.connections[c] \in DOMAIN u.endpoints
         THEN [u EXCEPT !.delivered[u.connections[c]] = Append(@, msg)]
         ELSE uni_disconnect(u, c)

\* The sends of one gather (lines 126-131), over the list of targets.
RECURSIVE uni_broadcast(_, _, _)
uni_broadcast(u, targets, msg) ==
    IF targets = <<>> THEN u
    ELSE uni_broadcast(uni_send_to_connection(u, Head(targets), msg), Tail(targets), msg)

\* broadcast_to_channel (lines 115-131).
broadcast_to_channel(u, channel, msg, context_id, exclude_connection) ==
    uni_broadcast(u,
                  SetToSeq({c \in DOMAIN u.subscriptions :
                               /\ c # exclude_connection
                               /\ ChannelKey(channel, context_id) \in u.subscriptions[c]}),
                  msg)

\* broadcast_to_context (lines 133-147).
broadcast_to_context(u, context_id, msg, exclude_connection) ==
    IF context_id \notin DOMAIN u.context_connections THEN u
    ELSE uni_broadcast(u,
                       SetToSeq({c \in u.context_connections[context_id] :
                                    c # exclude_connection}),
                       msg)

\* handle_message, conversation user_message (lines 313-337): the answer
\* goes to the context of the message, or to the connection_id of the
\* endpoint when the message names none.
handle_user_message(u, connection_id, msg, context_id) ==
    IF context_id # Nil
    THEN broadcast_to_context(u, context_id, msg, Nil)
    ELSE uni_send_to_connection(u, connection_id, msg)


\***************************************************************************
\* apply_document_edit (atomic_operations.py, script 'document_edit')
\***************************************************************************
\* Line 81, LTRIM history_key 0 99: the history keeps its newest 100 entries.
HistoryCap == 100

\* A record of the call log of the document specification.
DocCall(op, d, user, version, ok, reason, cur, owner) ==
    [op |-> op, doc |-> d, user |-> user, version |-> version, ok |-> ok,
     reason |-> reason, cur |-> cur, owner |-> owner]

\* A script whose version test is the wrong way round.
VersionConflictInverted(d, version) == doc[d].present /\ doc[d].version < version

\* A script that lets a caller one version behind through.
VersionConflictOffByOne(d, version) == doc[d].present /\ doc[d].version > version + 1

\* Lines 60-64: the stored version is ahead of the caller's.
VersionConflict(d, version) == doc[d].present /\ doc[d].version > version

\* A script that refuses the holder of the lock as well.
LockedByAnyone(d, user_id) == doc_lock[d] # Nil

\* Lines 66-70: another user holds the lock.
LockedByOther(d, user_id) == doc_lock[d] # Nil /\ doc_lock[d] # user_id

\* Line 73.
NewVersion(version) == version + 1

apply_document_edit(d, user_id, version) ==
    /\ Len(calls) < MaxDocCalls
    /\ IF ~redis_ok
       THEN /\ calls' = Append(calls, DocCall("edit", d, user_id, version, FALSE,
                                              "Redis not connected", 0, Nil))
            /\ UNCHANGED docVars
       ELSE IF ~redis_up
       THEN /\ calls' = Append(calls, Raised("edit"))
            /\ UNCHANGED docVars
       ELSE IF VersionConflict(d, version)
       THEN /\ calls' = Append(calls, DocCall("edit", d, user_id, version, FALSE,
                                              "Version conflict", doc[d].version, Nil))
            /\ UNCHANGED docVars
       ELSE IF LockedByOther(d, user_id)
       THEN /\ calls' = Append(calls, DocCall("edit", d, user_id, version, FALSE,
                                              "Document locked", 0, doc_lock[d]))
            /\ UNCHANGED docVars
       ELSE /\ calls' = Append(calls, DocCall("edit", d, user_id, version, TRUE,
                                              "Edit applied", NewVersion(version), Nil))
            /\ doc' = [doc EXCEPT ![d] = [present |-> TRUE, version |-> NewVersion(version),
                                          last_editor |-> user_id,
                                          updated_at |-> Len(calls) + 1]]
            /\ doc_history' = [doc_history EXCEPT ![d] =
                                  SubSeq(<<[user |-> user_id, version |-> version]>> \o @,
                                         1, IF Len(@) + 1 > HistoryCap THEN HistoryCap
                                            ELSE Len(@) + 1)]
            /\ doc_lock' = [doc_lock EXCEPT ![d] = user_id]
            /\ doc_release' = doc_release
    /\ UNCHANGED <<redis_ok, redis_up, wsVars, uni, notDocs>>

\* The TTL of lock:doc:<id> runs out (line 84, SETEX): the store drops the key.
LockExpire(d) ==
    /\ Len(calls) < MaxDocCalls
    /\ doc_lock[d] # Nil
    /\ doc_lock' = [doc_lock EXCEPT ![d] = Nil]
    /\ calls' = Append(calls, DocCall("expire", d, Nil, 0, TRUE, Nil, 0, Nil))
    /\ UNCHANGED <<redis_ok, redis_up, doc, doc_history, doc_release, wsVars, uni, notDocs>>

\***************************************************************************
\* Specification of documents: the store's edits and locks, and the two
\* registries the editors are connected through
\***************************************************************************
\* Line 81: a connection id nobody has had (uuid4).
FreshConn == ConnOrder[Cardinality(ws_used) + 1]

\* The editors share one registry session; each has a unified session of his own.
DocSession == "s1"
UniSessionOf(user) == IF user = "A" THEN "s1" ELSE "s2"
UniSocketOf(user) == IF user = "A" THEN "w1" ELSE "w2"

\* A user connects to the registry (a user connection of the session).
DocWsConnect(user_id) ==
    /\ PairConnIds \ ws_used # {}
    /\ ws' = ws_connect(ws, FreshConn, DocSession, "user", user_id, Nil)
    /\ ws_used' = ws_used \cup {FreshConn}
    /\ UNCHANGED <<redis_ok, redis_up, calls, docVars, ws_broken, ws_hist, uni, notDocs>>

\* WebSocketManager.disconnect is called for a live connection.
DocWsDisconnect(c) ==
    /\ Len(calls) < MaxDocCalls
    /\ c \in DOMAIN ws.connections
    /\ ws' = ws_disconnect(ws, c)
    /\ calls' = Append(calls, DocCall("disconnect", Nil, ws.connections[c].user_id, 0,
                                      TRUE, Nil, 0, Nil))
    /\ UNCHANGED <<redis_ok, redis_up, docVars, ws_broken, ws_used, ws_hist, uni, notDocs>>

DocWsDisconnectFinish(c) ==
    /\ ws.disc_pending[c] > 0
    /\ ws' = ws_disconnect_finish(ws, c)
    /\ UNCHANGED <<redis_ok, redis_up, calls, docVars, ws_broken, ws_used, ws_hist, uni, notDocs>>

DocWsAcquireLock(d, user_id) ==
    /\ user_id \in DOMAIN ws.user_connections
    /\ ws' = ws_acquire_document_lock(ws, d, user_id).w
    /\ ws' # ws
    /\ UNCHANGED <<redis_ok, redis_up, calls, docVars, ws_broken, ws_used, ws_hist, uni, notDocs>>

DocWsReleaseLock(d, user_id) ==
    /\ ws' = ws_release_document_lock(ws, d, user_id).w
    /\ ws' # ws
    /\ UNCHANGED <<redis_ok, redis_up, calls, docVars, ws_broken, ws_used, ws_hist, uni, notDocs>>

\* An authenticated user opens the unified endpoint for his session.
DocUniConnect(user) ==
    /\ UniConnId(UniSessionOf(user)) \notin DOMAIN uni.connections
    /\ uni' = uni_connect(uni, UniSocketOf(user), UniSessionOf(user), user)
    /\ UNCHANGED <<redis_ok, redis_up, calls, docVars, wsVars, notDocs>>

\* The unified endpoint's receive loop ends (lines 245-251).
DocUniDisconnect(c) ==
    /\ Len(calls) < MaxDocCalls
    /\ c \in DOMAIN uni.connections
    /\ c \in DOMAIN uni.authenticated_users
    /\ uni' = uni_disconnect(uni, c)
    /\ calls' = Append(calls, DocCall("disconnect", Nil, uni.authenticated_users[c], 0,
                                      TRUE, Nil, 0, Nil))
    /\ UNCHANGED <<redis_ok, redis_up, docVars, wsVars, notDocs>>

InitDoc ==
    /\ redis_ok = TRUE
    /\ redis_up = TRUE
    /\ calls = <<>>
    /\ doc = [d \in Docs |-> [present |-> FALSE, version |-> 0, last_editor |-> Nil,
                              updated_at |-> 0]]
    /\ doc_history = [d \in Docs |-> <<>>]
    /\ doc_lock = [d \in Docs |-> Nil]
    /\ doc_release = {}
    /\ ws = WsEmpty /\ ws_broken = {} /\ ws_used = {} /\ ws_hist = Nil
    /\ uni = UniEmpty
    /\ AgentsQuiet /\ RateQuiet /\ ChanQuiet /\ SupQuiet

EditStep == \E d \in Docs, u \in Users, v \in 0..MaxVersion : apply_document_edit(d, u, v)
LockExpireStep == \E d \in Docs : LockExpire(d)
DocWsConnectStep == \E u \in Users : DocWsConnect(u)
DocWsDisconnectStep == \E c \in ConnIds : DocWsDisconnect(c)
DocWsFinishStep == \E c \in ConnIds : DocWsDisconnectFinish(c)
DocWsAcquireStep == \E d \in Docs, u \in Users : DocWsAcquireLock(d, u)
DocWsReleaseStep == \E d \in Docs, u \in Users : DocWsReleaseLock(d, u)
DocUniConnectStep == \E u \in Users : DocUniConnect(u)
DocUniDisconnectStep == \E sid \in Sessions : DocUniDisconnect(UniConnId(sid))

NextDoc ==
    \/ EditStep \/ LockExpireStep
    \/ DocWsConnectStep \/ DocWsDisconnectStep \/ DocWsFinishStep
    \/ DocWsAcquireStep \/ DocWsReleaseStep
    \/ DocUniConnectStep \/ DocUniDisconnectStep

SpecDoc == InitDoc /\ [][NextDoc]_vars

\***************************************************************************
\* Specification of the store's document keys: the atomic edit next to the
\* lock helpers of RedisStateManager (core/redis_manager.py)
\***************************************************************************
\* acquire_document_lock (redis_manager.py, lines 269-292): SET
\* lock:doc:<id> user_id NX EX ttl.
redis_acquire_document_lock(d, user_id) ==
    /\ Len(calls) < MaxDocCalls
    /\ IF redis_ok /\ redis_up /\ doc_lock[d] = Nil
       THEN /\ doc_lock' = [doc_lock EXCEPT ![d] = user_id]
            /\ calls' = Append(calls, DocCall("acquire_document_lock", d, user_id, 0, TRUE,
                                              Nil, 0, Nil))
       ELSE /\ doc_lock' = doc_lock
            /\ calls' = Append(calls, DocCall("acquire_document_lock", d, user_id, 0, FALSE,
                                              Nil, 0, doc_lock[d]))
    /\ UNCHANGED <<redis_ok, redis_up, doc, doc_history, doc_release, wsVars, uni, notDocs>>

\* release_document_lock (redis_manager.py, lines 294-314), up to the
\* answer of GET (line 306): a caller that is not the owner, or that has no
\* store, returns False; the owner goes on to its DELETE.
redis_release_document_lock(d, user_id) ==
    /\ Len(calls) < MaxDocCalls
    /\ <<d, user_id>> \notin doc_release
    /\ IF redis_ok /\ redis_up /\ doc_lock[d] = user_id
       THEN /\ doc_release' = doc_release \cup {<<d, user_id>>}
            /\ calls' = calls
       ELSE /\ doc_release' = doc_release
            /\ calls' = Append(calls, DocCall("release_document_lock", d, user_id, 0, FALSE,
                                              Nil, 0, doc_lock[d]))
    /\ UNCHANGED <<redis_ok, redis_up, doc, doc_history, doc_lock, wsVars, uni, notDocs>>

\* Lines 307-309: the DELETE of the key, whoever owns it by now, and the
\* return of True; owner records whose lock the DELETE removed.
redis_release_delete(d, user_id) ==
    /\ <<d, user_id>> \in doc_release
    /\ doc_release' = doc_release \ {<<d, user_id>>}
    /\ doc_lock' = [doc_lock EXCEPT ![d] = Nil]
    /\ calls' = Append(calls, DocCall("release_document_lock", d, user_id, 0, TRUE,
                                      Nil, 0, doc_lock[d]))
    /\ UNCHANGED <<redis_ok, redis_up, doc, doc_history, wsVars, uni, notDocs>>

RedisAcquireStep == \E d \in Docs, u \in Users : redis_acquire_document_lock(d, u)
RedisReleaseStep == \E d \in Docs, u \in Users : redis_release_document_lock(d, u)
RedisDeleteStep == \E d \in Docs, u \in Users : redis_release_delete(d, u)

NextStore ==
    \/ EditStep \/ LockExpireStep
    \/ RedisAcquireStep \/ RedisReleaseStep \/ RedisDeleteStep

SpecStore == InitDoc /\ [][NextStore]_vars

\* C21: the store's document lock and version change only in an
\* apply_document_edit call (or when the TTL of the lock runs out): every
\* other operation leaves them as they were.
C21_OnlyEditsChangeStep ==
    (doc_lock' # doc_lock \/ doc' # doc) =>
        /\ Len(calls') = Len(calls) + 1
        /\ calls'[Len(calls')].op \in {"edit", "expire"}
C21_OnlyAtomicOpsChangeDocs == [][C21_OnlyEditsChangeStep]_vars

\* C36: release_document_lock never removes a lock held by another user:
\* whenever a release deletes the lock key, the key is absent or owned by
\* the releasing user.
C36_ReleaseStep ==
    (/\ Len(calls') = Len(calls) + 1
     /\ calls'[Len(calls')].op = "release_document_lock"
     /\ calls'[Len(calls')].ok) =>
        doc_lock[calls'[Len(calls')].doc] \in {Nil, calls'[Len(calls')].user}

C36_ReleaseOnlyOwnLock == [][C36_ReleaseStep]_vars


\***************************************************************************
\* Properties of documents
\***************************************************************************
\* The step is a call of apply_document_edit.
IsEditStep == Len(calls') = Len(calls) + 1 /\ calls'[Len(calls')].op = "edit"

\* C2: two apply_document_edit calls on one document with the same
\* expected_version, run by the store one after the other in either order
\* (by one user or by two), on a document whose stored version is that
\* expected_version and that no third user has locked: the first succeeds
\* and leaves the stored version exactly 1 higher, the second fails with
\* 'Version conflict' and leaves the version alone.
C2_FirstWins ==
    IsEditStep =>
        LET c == calls'[Len(calls')] IN
        ( /\ doc[c.doc].present
          /\ doc[c.doc].version = c.version
          /\ doc_lock[c.doc] \in {Nil, c.user} )
        => /\ c.ok
           /\ c.cur = doc[c.doc].version + 1
           /\ doc'[c.doc].version = doc[c.doc].version + 1

C2_SecondConflicts ==
    (IsEditStep /\ Len(calls) > 0) =>
        LET c == calls'[Len(calls')]
            first == calls[Len(calls)]
        IN  ( /\ first.op = "edit" /\ first.ok
              /\ first.doc = c.doc /\ first.version = c.version )
            => /\ ~c.ok
               /\ c.reason = "Version conflict"
               /\ doc'[c.doc].version = doc[c.doc].version
               /\ doc[c.doc].version = c.version + 1

C6_EditAfterDisconnectSucceeds ==
    \A i \in 1..(Len(calls) - 2) :
        ( /\ calls[i].op = "edit" /\ calls[i].ok
          /\ calls[i + 1].op = "disconnect" /\ calls[i + 1].user = calls[i].user
          /\ calls[i + 2].op = "edit" /\ calls[i + 2].user # calls[i].user
          /\ calls[i + 2].doc = calls[i].doc
          /\ calls[i + 2].version = calls[i].version )
        => calls[i + 2].ok

\* C6 with B passing the version A's edit produced: the edit is still
\* refused, the store's lock being untouched by either disconnect.
C6_EditAtNewVersionAfterDisconnectSucceeds ==
    \A i \in 1..(Len(calls) - 2) :
        ( /\ calls[i].op = "edit" /\ calls[i].ok
          /\ calls[i + 1].op = "disconnect" /\ calls[i + 1].user = calls[i].user
          /\ calls[i + 2].op = "edit" /\ calls[i + 2].user # calls[i].user
          /\ calls[i + 2].doc = calls[i].doc
          /\ calls[i + 2].version = calls[i].cur )
        => calls[i + 2].ok

\* C12: a document's stored version never decreases, whatever edits
\* (successful or rejected, by any user, with any expected_version) and lock
\* expiries happen: no step lowers it, or removes it.
C12_VersionStep ==
    \A d \in Docs :
        doc[d].present => doc'[d].present /\ doc'[d].version >= doc[d].version

C12_VersionNeverDecreases == [][C12_VersionStep]_vars

\* A successful edit, then a rejected stale one, then a lock expiry.
C12_Witness ==
    \E i, j, k \in 1..Len(calls) :
        /\ i < j /\ j < k
        /\ calls[i].op = "edit" /\ calls[i].ok
        /\ calls[j].op = "edit" /\ ~calls[j].ok /\ calls[j].doc = calls[i].doc
        /\ calls[k].op = "expire" /\ calls[k].doc = calls[i].doc
        /\ doc[calls[i].doc].version = calls[i].cur

\* The successful edits of document d among the first n calls, oldest first.
SuccessfulEdits(d, n) ==
    SelectSeq(SubSeq(calls, 1, n),
              LAMBDA c : c.op = "edit" /\ c.ok /\ c.doc = d)

\* C13: every successful edit leaves the stored version exactly 1 above the
\* version stored immediately before the call (the version the previous
\* successful edit of the document left), for every expected_version the
\* version test admits.
C13_SuccessRaisesVersionByOne ==
    \A d \in Docs :
        LET edits == SuccessfulEdits(d, Len(calls))
        IN  \A i \in 1..(Len(edits) - 1) : edits[i + 1].cur = edits[i].cur + 1

\* What the script does instead: the version stored is the caller's
\* expected_version plus one, whatever was stored.
C13_SuccessStoresExpectedPlusOne ==
    \A i \in 1..Len(calls) :
        (calls[i].op = "edit" /\ calls[i].ok) => calls[i].cur = calls[i].version + 1

\* C14: an edit is rejected exactly when the stored version is above the
\* expected_version ('Version conflict', with the stored version) or an
\* unexpired lock is held by another user ('Document locked', with the
\* owner); a rejected edit leaves version, last_editor, history and lock
\* as they were.
C14_EditStep ==
    IsEditStep =>
        LET c == calls'[Len(calls')]
            stale == doc[c.doc].present /\ doc[c.doc].version > c.version
            locked == doc_lock[c.doc] # Nil /\ doc_lock[c.doc] # c.user
        IN  /\ c.ok <=> ~(stale \/ locked)
            /\ stale => c.reason = "Version conflict" /\ c.cur = doc[c.doc].version
            /\ (~stale /\ locked) =>
                   c.reason = "Document locked" /\ c.owner = doc_lock[c.doc]
            /\ ~c.ok => doc' = doc /\ doc_history' = doc_history /\ doc_lock' = doc_lock

C14_RejectedExactlyOnConflict == [][C14_EditStep]_vars

\* One edit was refused as stale and another as locked.
C14_Witness ==
    /\ \E i \in 1..Len(calls) :
          calls[i].op = "edit" /\ ~calls[i].ok /\ calls[i].reason = "Version conflict"
    /\ \E i \in 1..Len(calls) :
          calls[i].op = "edit" /\ ~calls[i].ok /\ calls[i].reason = "Document locked"


\***************************************************************************
\* rate_limit (atomic_operations.py, script 'rate_limit')
\***************************************************************************
\* Line 133, ZREMRANGEBYSCORE key 0 (current_time - window): the members left.
RemoveOld(members, current_time, window) ==
    {t \in members : ~(0 <= t /\ t <= current_time - window)}

\* Line 140, ZADD key current_time current_time: the member is the timestamp
\* itself, so a timestamp already in the set is not added a second time.
ZAdd(members, current_time) == members \cup {current_time}

check_rate_limit_atomic ==
    /\ Len(calls) < MaxRateCalls
    /\ IF ~redis_ok
       THEN /\ calls' = Append(calls, [op |-> "rate_limit", at |-> rate_now, ok |-> TRUE,
                                       remaining |-> rate_cfg.limit])
            /\ rate_admitted' = Append(rate_admitted, rate_now)
            /\ UNCHANGED <<rate_set, rate_ttl>>
       ELSE IF ~redis_up
       THEN /\ calls' = Append(calls, Raised("rate_limit"))
            /\ UNCHANGED <<rate_set, rate_ttl, rate_admitted>>
       ELSE LET kept == RemoveOld(rate_set, rate_now, rate_cfg.window)
                current == Cardinality(kept)
            IN  IF current < rate_cfg.limit
                THEN /\ rate_set' = ZAdd(kept, rate_now)
                     /\ rate_ttl' = rate_cfg.window
                     /\ rate_admitted' = Append(rate_admitted, rate_now)
                     /\ calls' = Append(calls, [op |-> "rate_limit", at |-> rate_now,
                                                ok |-> TRUE,
                                                remaining |-> rate_cfg.limit - current - 1])
                ELSE /\ rate_set' = kept
                     /\ calls' = Append(calls, [op |-> "rate_limit", at |-> rate_now,
                                                ok |-> FALSE, remaining |-> 0])
                     /\ UNCHANGED <<rate_ttl, rate_admitted>>
    /\ UNCHANGED <<redis_ok, redis_up, rate_now, rate_cfg, notRate>>

\* A second passes; a key whose TTL (line 141, EXPIRE key window) runs out is
\* dropped by the store.
Tick ==
    /\ rate_now < MaxWindow + MaxTime
    /\ rate_now' = rate_now + 1
    /\ rate_ttl' = IF rate_ttl > 0 THEN rate_ttl - 1 ELSE 0
    /\ rate_set' = IF rate_ttl = 1 THEN {} ELSE rate_set
    /\ UNCHANGED <<redis_ok, redis_up, calls, rate_cfg, rate_admitted, notRate>>

InitRate ==
    /\ redis_ok = TRUE
    /\ redis_up = TRUE
    /\ calls = <<>>
    /\ rate_set = {}
    /\ rate_ttl = 0
    /\ rate_now = MaxWindow
    /\ rate_cfg \in [limit : 1..MaxLimit, window : 1..MaxWindow]
    /\ rate_admitted = <<>>
    /\ AgentsQuiet /\ DocQuiet /\ ChanQuiet /\ WsQuiet /\ UniQuiet /\ SupQuiet

NextRate == check_rate_limit_atomic \/ Tick

SpecRate == InitRate /\ [][NextRate]_vars

\* C4: the calls admitted with timestamps inside any trailing interval of
\* window seconds, (t - window, t], are never more than limit.
C4_AtMostLimitPerWindow ==
    \A t \in 0..rate_now :
        Cardinality({i \in 1..Len(rate_admitted) :
                        t - rate_cfg.window < rate_admitted[i] /\ rate_admitted[i] <= t})
            <= rate_cfg.limit

\* Lines 262-267: limit and window are arguments of every call, so the next
\* caller of the key may pass others than the last one did.
PassOtherLimits ==
    /\ Len(calls) < MaxRateCalls
    /\ rate_cfg' \in [limit : 1..MaxLimit, window : 1..MaxWindow] \ {rate_cfg}
    /\ UNCHANGED <<redis_ok, redis_up, calls, rate_set, rate_ttl, rate_now, rate_admitted, notRate>>

NextRateAnyLimits == check_rate_limit_atomic \/ Tick \/ PassOtherLimits

\* The rate limiter called with limits that differ from call to call.
SpecRateAnyLimits == InitRate /\ [][NextRateAnyLimits]_vars

\* The step is a call of check_rate_limit_atomic that the script refused.
IsRejectedRateStep ==
    /\ Len(calls') = Len(calls) + 1
    /\ calls'[Len(calls')].op = "rate_limit"
    /\ ~calls'[Len(calls')].ok

\* C16: a rate_limit call that is rejected returns (false, 0) and leaves the
\* set of timestamps stored under its key exactly as it was before the call.
C16_RejectedStep ==
    IsRejectedRateStep =>
        /\ calls'[Len(calls')].remaining = 0
        /\ rate_set' = rate_set
C16_RejectedLeavesSet == [][C16_RejectedStep]_vars

\***************************************************************************
\* ordered_publish (atomic_operations.py, script 'ordered_message')
\***************************************************************************
\* A script that skips a number.
NextSequenceSkipping(sequence) == sequence + 2

\* Line 156, HINCRBY <channel>:meta sequence 1.
NextSequence(sequence) == sequence + 1

\* A trim that removes the highest-ranked messages instead of the lowest.
TrimLogNewest(log) ==
    IF Cardinality(log) > LogCap
    THEN {m \in log : Cardinality({n \in log : n.sequence > m.sequence})
                        >= Cardinality(log) - LogCap}
    ELSE log

\* Lines 173-176: the log without its count - LogCap lowest-ranked messages.
TrimLog(log) ==
    IF Cardinality(log) > LogCap
    THEN {m \in log : Cardinality({n \in log : n.sequence < m.sequence})
                        >= Cardinality(log) - LogCap}
    ELSE log

send_ordered_message(text, sender) ==
    /\ Len(calls) < MaxPublish
    /\ IF ~redis_ok
       THEN /\ calls' = Append(calls, [op |-> "ordered_publish", sender |-> sender,
                                       ok |-> FALSE, sequence |-> 0])
            /\ UNCHANGED chanVars
       ELSE IF ~redis_up
       THEN /\ calls' = Append(calls, Raised("ordered_publish"))
            /\ UNCHANGED chanVars
       ELSE LET sequence == NextSequence(chan_seq)
                ordered_msg == [sequence |-> sequence, sender |-> sender, message |-> text]
            IN  /\ chan_seq' = sequence
                /\ chan_log' = TrimLog(chan_log \cup {ordered_msg})
                /\ chan_pub' = Append(chan_pub, ordered_msg)
                /\ calls' = Append(calls, [op |-> "ordered_publish", sender |-> sender,
                                           ok |-> TRUE, sequence |-> sequence])
    /\ UNCHANGED <<redis_ok, redis_up, notChan>>

InitChan ==
    /\ redis_ok = TRUE
    /\ redis_up = TRUE
    /\ calls = <<>>
    /\ chan_seq = 0
    /\ chan_log = {}
    /\ chan_pub = <<>>
    /\ AgentsQuiet /\ DocQuiet /\ RateQuiet /\ WsQuiet /\ UniQuiet /\ SupQuiet

NextChan == \E text \in Texts, sender \in Senders : send_ordered_message(text, sender)

SpecChan == InitChan /\ [][NextChan]_vars

\* C5: the sequence numbers issued to the callers, and those of the messages
\* published to the subscribers, in publication order, are 1, 2, 3, ...
C5_SequenceContiguous ==
    /\ \A i \in 1..Len(calls) : calls[i].ok /\ calls[i].sequence = i
    /\ \A i \in 1..Len(chan_pub) : chan_pub[i].sequence = i
    /\ Len(chan_pub) = Len(calls)

\* Two publishers have published three messages between them.
C5_Witness ==
    /\ Len(chan_pub) >= 3
    /\ \E i, j \in 1..Len(chan_pub) : chan_pub[i].sender # chan_pub[j].sender

\* C17: after any sequence of ordered_publish calls the retained log of the
\* channel holds at most the cap of entries (LogCap stands for the 1000 of
\* lines 174-175), and once more than that many messages have been published
\* it holds exactly the cap's worth of published messages with the highest
\* sequence numbers.
C17_LogHoldsNewest ==
    /\ Cardinality(chan_log) <= LogCap
    /\ Len(chan_pub) <= LogCap => chan_log = Range(chan_pub)
    /\ Len(chan_pub) > LogCap =>
          chan_log = {chan_pub[i] : i \in (Len(chan_pub) - LogCap + 1)..Len(chan_pub)}

\* The channel has published at least two messages more than the cap, so
\* the trim has evicted on more than one call.
C17_Witness ==
    /\ Len(chan_pub) >= LogCap + 2
    /\ Cardinality(chan_log) = LogCap


\***************************************************************************
\* Specification of the registry: agents and users connect and disconnect,
\* transports break, messages are sent to agents, agents are paused and
\* resumed
\***************************************************************************
\* ws_hist[a], the last pause of agent a that found it connected and
\* running: phase - "none", "paused" (pause_agent returned), "draining"
\* (resume_agent is inside its drain), "resumed" (resume_agent returned), or
\* "spoiled" (the agent lost that connection, or was paused again, before
\* resume_agent returned); conn - the agent's connection at the pause;
\* mark - how many frames it had accepted by then; held - the data messages
\* passed to send_to_agent between the pause and the resume, in call order.
\* The agents and the user of the registry share one session.
WsSession == "s1"
WsUsers == {"A"}

HistNone == [phase |-> "none", conn |-> Nil, mark |-> 0, held |-> <<>>]

\* The pause is spoiled once the agent is no longer on the connection it had.
HistTrack(h, w2, a) ==
    IF /\ h.phase \in {"paused", "draining"}
       /\ (a \notin DOMAIN w2.agent_connections \/ w2.agent_connections[a] # h.conn)
    THEN [h EXCEPT !.phase = "spoiled"]
    ELSE h

HistTrackAll(w2) == [a \in WsAgents |-> HistTrack(ws_hist[a], w2, a)]

InitWs ==
    /\ redis_ok = TRUE
    /\ redis_up = TRUE
    /\ calls = <<>>
    /\ ws = WsEmpty /\ ws_broken = {} /\ ws_used = {}
    /\ ws_hist = [a \in WsAgents |-> HistNone]
    /\ AgentsQuiet /\ DocQuiet /\ RateQuiet /\ ChanQuiet /\ UniQuiet /\ SupQuiet

\* An agent or a user opens a connection in session sid.
WsConnect(sid, kind, user_id, agent_id) ==
    /\ ~WsHung(ws)
    /\ PairConnIds \ ws_used # {}
    /\ ws' = ws_connect(ws, FreshConn, sid, kind, user_id, agent_id)
    /\ ws_used' = ws_used \cup {FreshConn}
    /\ ws_hist' = HistTrackAll(ws')
    /\ UNCHANGED <<redis_ok, redis_up, calls, ws_broken, notWs>>

\* disconnect is called for a live connection (the endpoint's receive loop
\* ended).
WsDisconnect(c) ==
    /\ ~WsHung(ws)
    /\ c \in DOMAIN ws.connections
    /\ ws.disc_pending[c] = 0 /\ ws.send_pending[c] = 0
    /\ ws' = ws_disconnect(ws, c)
    /\ ws_hist' = HistTrackAll(ws')
    /\ UNCHANGED <<redis_ok, redis_up, calls, ws_broken, ws_used, notWs>>

WsDisconnectFinish(c) ==
    /\ ~WsHung(ws)
    /\ ws.disc_pending[c] > 0
    /\ ws' = ws_disconnect_finish(ws, c)
    /\ ws_hist' = HistTrackAll(ws')
    /\ UNCHANGED <<redis_ok, redis_up, calls, ws_broken, ws_used, notWs>>

\* A send_to_connection call suspended in its disconnect goes on.
WsSendFinish(c) ==
    /\ ~WsHung(ws)
    /\ ws.send_pending[c] > 0
    /\ ws' = send_to_connection_finish(ws, c)
    /\ ws_hist' = HistTrackAll(ws')
    /\ UNCHANGED <<redis_ok, redis_up, calls, ws_broken, ws_used, notWs>>

\* The peer of a live connection goes away: its next send raises.
TransportBreak(c) ==
    /\ ~WsHung(ws)
    /\ c \in DOMAIN ws.connections
    /\ c \notin ws_broken
    /\ ws_broken' = ws_broken \cup {c}
    /\ UNCHANGED <<redis_ok, redis_up, calls, ws, ws_used, ws_hist, notWs>>

\* send_to_agent with a message not sent before.
SendToAgent(a) ==
    /\ ~WsHung(ws)
    /\ ws.sent < MaxMsgs
    /\ LET m == Msg("data", ws.sent + 1, a)
           h == IF ws_hist[a].phase = "paused"
                THEN [ws_hist[a] EXCEPT !.held = Append(@, m)]
                ELSE ws_hist[a]
       IN  /\ ws' = [send_to_agent(ws, a, m).w EXCEPT !.sent = @ + 1]
           /\ ws_hist' = [HistTrackAll(ws') EXCEPT ![a] = HistTrack(h, ws', a)]
    /\ UNCHANGED <<redis_ok, redis_up, calls, ws_broken, ws_used, notWs>>

PauseAgent(a) ==
    /\ ~WsHung(ws)
    /\ ws.pauses < MaxPauses
    /\ LET h == ws_hist[a]
           h1 == IF /\ a \in DOMAIN ws.agent_connections
                    /\ ~IsPaused(ws, a)
                    /\ a \notin ws.draining
                    /\ h.phase \in {"none", "resumed", "spoiled"}
                 THEN [phase |-> "paused", conn |-> ws.agent_connections[a],
                       mark |-> Len(ws.delivered[ws.agent_connections[a]]),
                       held |-> <<>>]
                 ELSE IF h.phase = "draining" THEN [h EXCEPT !.phase = "spoiled"]
                 ELSE h
       IN  /\ ws' = [pause_agent(ws, a) EXCEPT !.pauses = @ + 1]
           /\ ws_hist' = [HistTrackAll(ws') EXCEPT ![a] = HistTrack(h1, ws', a)]
    /\ UNCHANGED <<redis_ok, redis_up, calls, ws_broken, ws_used, notWs>>

\* resume_agent is called, and runs up to its first suspension.
ResumeAgent(a) ==
    /\ ~WsHung(ws)
    /\ ws.resumes < MaxResumes
    /\ a \notin ws.draining
    /\ ws' = [resume_agent(ws, a) EXCEPT !.resumes = @ + 1]
    /\ LET h == HistTrack(ws_hist[a], ws', a)
           h1 == IF h.phase # "paused" THEN h
                 ELSE IF a \in ws'.draining THEN [h EXCEPT !.phase = "draining"]
                 ELSE [h EXCEPT !.phase = "resumed"]
       IN  ws_hist' = [HistTrackAll(ws') EXCEPT ![a] = h1]
    /\ UNCHANGED <<redis_ok, redis_up, calls, ws_broken, ws_used, notWs>>

\* A suspended resume_agent goes on, up to its next suspension or its return.
ResumeStep(a) ==
    /\ ~WsHung(ws)
    /\ a \in ws.draining
    /\ ws' = ResumeDrain(ws, a)
    /\ LET h == HistTrack(ws_hist[a], ws', a)
           h1 == IF h.phase = "draining" /\ a \notin ws'.draining
                 THEN [h EXCEPT !.phase = "resumed"]
                 ELSE h
       IN  ws_hist' = [HistTrackAll(ws') EXCEPT ![a] = h1]
    /\ UNCHANGED <<redis_ok, redis_up, calls, ws_broken, ws_used, notWs>>

WsConnectStep ==
    \/ \E a \in WsAgents : WsConnect(WsSession, "agent", Nil, a)
    \/ \E u \in WsUsers : WsConnect(WsSession, "user", u, Nil)
WsDisconnectStep == \E c \in ConnIds : WsDisconnect(c)
WsFinishStep == \E c \in ConnIds : WsDisconnectFinish(c)
WsSendFinishStep == \E c \in ConnIds : WsSendFinish(c)
TransportBreakStep == \E c \in ConnIds : TransportBreak(c)
SendToAgentStep == \E a \in WsAgents : SendToAgent(a)
PauseAgentStep == \E a \in WsAgents : PauseAgent(a)
ResumeAgentStep == \E a \in WsAgents : ResumeAgent(a)
ResumeStepStep == \E a \in WsAgents : ResumeStep(a)

NextWs ==
    \/ WsConnectStep \/ WsDisconnectStep \/ WsFinishStep \/ WsSendFinishStep
    \/ TransportBreakStep
    \/ SendToAgentStep \/ PauseAgentStep \/ ResumeAgentStep \/ ResumeStepStep

SpecWs == InitWs /\ [][NextWs]_vars


\***************************************************************************
\* Properties of the registry
\***************************************************************************
\* The frames connection c accepted after the first n, restricted to the
\* messages of the sequence held.
DeliveredOf(c, n, held) ==
    SelectSeq(SubSeq(ws.delivered[c], n + 1, Len(ws.delivered[c])),
              LAMBDA m : \E i \in 1..Len(held) : held[i] = m)

\* C7: when resume_agent(X) has returned after pause_agent(X) and the
\* send_to_agent calls M1, M2, M3 that followed it, X having kept its
\* connection throughout, X's connection has accepted M1, M2, M3 in the
\* order of the calls, each exactly once.
C7_PausedMessagesInOrder ==
    \A a \in WsAgents :
        ws_hist[a].phase = "resumed" =>
            DeliveredOf(ws_hist[a].conn, ws_hist[a].mark, ws_hist[a].held) = ws_hist[a].held

\* Three messages were held by a pause and the resume has returned.
C7_Witness ==
    \E a \in WsAgents :
        /\ ws_hist[a].phase = "resumed"
        /\ Len(ws_hist[a].held) = 3
        /\ ws.message_queues[a] = <<>>

\* The paused flag of agent a is set in manager w.
PausedFlag(w, a) == a \in DOMAIN w.agent_states /\ w.agent_states[a].paused = TRUE

\* The queue of agent a in manager w.
QueueOf(w, a) == IF a \in DOMAIN w.message_queues THEN w.message_queues[a] ELSE <<>>

\* C22: in a step that finds the paused flag of a connected agent set and
\* leaves it set, the agent's connection accepts no message sent to the
\* agent (data or control), and a send_to_agent call of that step appends
\* its message to the end of the agent's queue.
C22_PausedStep ==
    \A a \in WsAgents :
        (PausedFlag(ws, a) /\ PausedFlag(ws', a) /\ a \in DOMAIN ws.agent_connections) =>
            LET c == ws.agent_connections[a]
            IN  /\ \A i \in (Len(ws.delivered[c]) + 1)..Len(ws'.delivered[c]) :
                       ws'.delivered[c][i].type \notin {"data", "control"}
                /\ ws'.sent = ws.sent + 1 =>
                       QueueOf(ws', a) = Append(QueueOf(ws, a), Msg("data", ws'.sent, a))
C22_PausedMessagesQueued == [][C22_PausedStep]_vars

\* A connected agent is paused, two data messages sent to it since wait in
\* its queue behind the pause notice, and its connection has accepted a
\* frame that was not sent to the agent.
C22_Witness ==
    \E a \in WsAgents :
        /\ PausedFlag(ws, a)
        /\ a \in DOMAIN ws.agent_connections
        /\ Len(QueueOf(ws, a)) >= 3
        /\ QueueOf(ws, a)[1].type = "control"
        /\ QueueOf(ws, a)[2].type = "data" /\ QueueOf(ws, a)[3].type = "data"
        /\ ws.delivered[ws.agent_connections[a]] # <<>>

\* C23: while resume_agent drains the queue of an agent that kept its
\* connection, no data message is delivered to the agent ahead of a data
\* message sent earlier that still waits in the queue.
C23_DrainBeforeDirectSends ==
    \A a \in WsAgents :
        ws_hist[a].phase = "draining" =>
            LET c == ws_hist[a].conn
                queue == QueueOf(ws, a)
            IN  \A i \in (ws_hist[a].mark + 1)..Len(ws.delivered[c]), j \in 1..Len(queue) :
                    (ws.delivered[c][i].type = "data" /\ queue[j].type = "data") =>
                        ws.delivered[c][i].id < queue[j].id

\* C31: resume_agent always terminates: no call of it is caught in a drain
\* loop that puts the messages it takes from the queue back for ever, also
\* when the agent has queued messages and no connection, or is paused again
\* while the drain is under way.
C31_ResumeTerminates ==
    \A a \in WsAgents : <<"resume_agent", "never ends", a>> \notin ws.raised

\* C34: messages to one agent are delivered in the order send_to_agent
\* accepted them, across disconnect and reconnect: while the agent is
\* connected, not paused and not being resumed, no data message waits in its
\* queue that is older than a data message one of its connections has
\* already accepted.
C34_QueuedBeforeLater ==
    \A a \in WsAgents :
        (a \in DOMAIN ws.agent_connections /\ ~PausedFlag(ws, a) /\ a \notin ws.draining) =>
            \A c \in ConnIds :
                \A i \in 1..Len(ws.delivered[c]), j \in 1..Len(QueueOf(ws, a)) :
                    (/\ ws.delivered[c][i].type = "data"
                     /\ ws.delivered[c][i].who = a
                     /\ QueueOf(ws, a)[j].type = "data") =>
                        ws.delivered[c][i].id < QueueOf(ws, a)[j].id


\***************************************************************************
\* Specification of the registry's sends: users of one session connect and
\* disconnect, transports break, callers send to one connection (the
\* heartbeat of line 327, the handlers of line 433) and broadcast to the
\* session
\***************************************************************************
\* A record of the call log: the message, the connection excluded, the
\* result, and the session's members and the broken transports at the call.
RegCall(op, c, msg, exclude, ok) ==
    [op |-> op, conn |-> c, msg |-> msg, exclude |-> exclude, ok |-> ok,
     members |-> BroadcastTargets(ws, WsSession, Nil), broken |-> ws_broken]

\* A user opens a connection in the session; ids is the connections that
\* may be opened.
RegConnect(user_id, ids) ==
    /\ ids \ ws_used # {}
    /\ ws' = ws_connect(ws, FreshConn, WsSession, "user", user_id, Nil)
    /\ ws_used' = ws_used \cup {FreshConn}
    /\ UNCHANGED <<redis_ok, redis_up, calls, ws_broken, ws_hist, notWs>>

\* The endpoint of a connection calls disconnect, once.
RegDisconnect(c) ==
    /\ c \in DOMAIN ws.connections
    /\ ws.disc_pending[c] = 0
    /\ ws' = ws_disconnect(ws, c)
    /\ UNCHANGED <<redis_ok, redis_up, calls, ws_broken, ws_used, ws_hist, notWs>>

RegDisconnectFinish(c) ==
    /\ ws.disc_pending[c] > 0
    /\ ws' = ws_disconnect_finish(ws, c)
    /\ UNCHANGED <<redis_ok, redis_up, calls, ws_broken, ws_used, ws_hist, notWs>>

RegSendFinish(c) ==
    /\ ws.send_pending[c] > 0
    /\ ws' = send_to_connection_finish(ws, c)
    /\ UNCHANGED <<redis_ok, redis_up, calls, ws_broken, ws_used, ws_hist, notWs>>

\* send_to_connection is called with a connection id and a new message.
RegSend(c) ==
    /\ Len(calls) < MaxRegCalls
    /\ LET msg == Msg("data", Len(calls) + 1, c)
           r == send_to_connection(ws, c, msg)
       IN  /\ ws' = r.w
           /\ calls' = Append(calls, RegCall("send_to_connection", c, msg, Nil, r.ok))
    /\ UNCHANGED <<redis_ok, redis_up, ws_broken, ws_used, ws_hist, notWs>>

\* broadcast_to_session is called with a new message.
RegBroadcast(exclude) ==
    /\ Len(calls) < MaxRegCalls
    /\ LET msg == Msg("data", Len(calls) + 1, "session")
       IN  /\ ws' = broadcast_to_session(ws, WsSession, msg, exclude)
           /\ calls' = Append(calls, RegCall("broadcast_to_session", Nil, msg, exclude, TRUE))
    /\ UNCHANGED <<redis_ok, redis_up, ws_broken, ws_used, ws_hist, notWs>>

RegConnectStep == \E u \in WsUsers : RegConnect(u, PairConnIds)
RegDisconnectStep == \E c \in ConnIds : RegDisconnect(c)
RegFinishStep == \E c \in ConnIds : RegDisconnectFinish(c)
RegSendFinishStep == \E c \in ConnIds : RegSendFinish(c)
RegSendStep == \E c \in ConnIds : RegSend(c)
RegBroadcastStep == \E exclude \in ConnIds \cup {Nil} : RegBroadcast(exclude)

NextReg ==
    \/ RegConnectStep \/ RegDisconnectStep \/ RegFinishStep \/ RegSendFinishStep
    \/ TransportBreakStep
    \/ RegSendStep

SpecReg == InitWs /\ [][NextReg]_vars

\* Broadcasts in a session of up to three users.
CastConnectStep == \E u \in WsUsers : RegConnect(u, ConnIds)

NextCast ==
    \/ CastConnectStep \/ RegSendFinishStep
    \/ TransportBreakStep
    \/ RegBroadcastStep

SpecCast == InitWs /\ [][NextCast]_vars

\* C18: send_to_connection never raises to its caller, also when the
\* connection is being disconnected by another task at the same time.
C18_SendNeverRaises ==
    \A r \in ws.raised : r[1] # "send_to_connection"

\* The rest of C18: a send to an unknown connection returns False, a send
\* the transport accepted returns True, a send the transport refused returns
\* False (if it returns) with the connection out of its session.
C18_SendResultStep ==
    (Len(calls') = Len(calls) + 1 /\ calls'[Len(calls')].op = "send_to_connection") =>
        LET call == calls'[Len(calls')]
            c == call.conn
        IN  /\ call.ok <=> (c \in DOMAIN ws.connections /\ c \notin ws_broken)
            /\ call.ok => ws'.delivered[c] = Append(ws.delivered[c], call.msg)
            /\ (c \in DOMAIN ws.connections /\ c \in ws_broken) =>
                   c \notin BroadcastTargets(ws', WsSession, Nil)
C18_SendResult == [][C18_SendResultStep]_vars

\* How many times connection c has accepted message msg.
TimesDelivered(w, c, msg) == Len(SelectSeq(w.delivered[c], LAMBDA m : m = msg))

\* C19: a broadcast to a session reaches every member but the excluded one
\* whose transport accepts the send, whatever subset of the members'
\* transports refuse it, and every member whose transport refused it is
\* disconnected: it has left the session, and its registration is removed
\* or waits only for the end of its disconnect.
C19_BroadcastStep ==
    (Len(calls') = Len(calls) + 1 /\ calls'[Len(calls')].op = "broadcast_to_session") =>
        LET call == calls'[Len(calls')]
            members == IF WsSession \in DOMAIN ws.sessions THEN ws.sessions[WsSession] ELSE {}
            targets == members \ {call.exclude}
        IN  /\ \A c \in targets \ ws_broken :
                   /\ TimesDelivered(ws, c, call.msg) = 0
                   /\ TimesDelivered(ws', c, call.msg) = 1
            /\ \A c \in targets \cap ws_broken :
                   /\ WsSession \in DOMAIN ws'.sessions => c \notin ws'.sessions[WsSession]
                   /\ c \notin DOMAIN ws'.connections \/ ws'.send_pending[c] > 0
                   /\ TimesDelivered(ws', c, call.msg) = 0
            /\ \A c \in members \ targets : TimesDelivered(ws', c, call.msg) = 0
C19_BroadcastToleratesFailures == [][C19_BroadcastStep]_vars

\* A broadcast excluded one member of the session, was refused by another
\* member's transport and was accepted by a third.
C19_Witness ==
    \E i \in 1..Len(calls) :
        /\ calls[i].op = "broadcast_to_session"
        /\ calls[i].exclude \in calls[i].members
        /\ \E c \in calls[i].members \ {calls[i].exclude} : c \in calls[i].broken
        /\ \E c \in calls[i].members \ {calls[i].exclude} :
               c \notin calls[i].broken /\ TimesDelivered(ws, c, calls[i].msg) = 1



\* C33: disconnect is idempotent under concurrency: when two calls for one
\* connection interleave (the one inside a failed send and the one of the
\* receive loop), neither raises, and every other connection accepts the
\* 'connection_left' notice of that connection at most once.
C33_DisconnectIdempotent ==
    \A c \in ConnIds :
        /\ <<"disconnect", "KeyError", c>> \notin ws.raised
        /\ <<"send_to_connection", "KeyError", c>> \notin ws.raised
        /\ \A other \in ConnIds \ {c} :
              TimesDelivered(ws, other, Msg("connection_left", 0, c)) <= 1

\***************************************************************************
\* Specification of the registry's indexes: users and agents open
\* connections in two sessions, transports break, endpoints disconnect
\***************************************************************************
IndexConnect(sid, kind, user_id, agent_id) ==
    /\ ConnIds \ ws_used # {}
    /\ ws' = ws_connect(ws, FreshConn, sid, kind, user_id, agent_id)
    /\ ws_used' = ws_used \cup {FreshConn}
    /\ UNCHANGED <<redis_ok, redis_up, calls, ws_broken, ws_hist, notWs>>

IndexConnectStep ==
    \E sid \in Sessions :
        \/ \E a \in WsAgents : IndexConnect(sid, "agent", Nil, a)
        \/ \E u \in WsUsers : IndexConnect(sid, "user", u, Nil)

NextIndex ==
    \/ IndexConnectStep \/ RegDisconnectStep \/ RegFinishStep \/ RegSendFinishStep
    \/ TransportBreakStep

SpecIndex == InitWs /\ [][NextIndex]_vars

\* A live connection: registered, and no disconnect of it under way.
LiveConn(w, c) ==
    /\ c \in DOMAIN w.connections
    /\ w.disc_pending[c] = 0
    /\ w.send_pending[c] = 0

\* C30: the session index maps each session it holds to exactly the live
\* connections of that session, never to an empty set, and holds every
\* session that has a live connection; the user and agent indexes name
\* only connections that are still registered.
C30_IndexConsistent ==
    /\ \A sid \in DOMAIN ws.sessions :
          /\ ws.sessions[sid] # {}
          /\ ws.sessions[sid] =
                {c \in ConnIds : LiveConn(ws, c) /\ ws.connections[c].session_id = sid}
    /\ \A c \in ConnIds : LiveConn(ws, c) => ws.connections[c].session_id \in DOMAIN ws.sessions
    /\ \A u \in DOMAIN ws.user_connections :
          /\ ws.user_connections[u] # {}
          /\ ws.user_connections[u] \subseteq DOMAIN ws.connections
    /\ \A a \in DOMAIN ws.agent_connections :
          ws.agent_connections[a] \in DOMAIN ws.connections

\* Three connections were opened, one has been disconnected and removed,
\* and the two left share a session; no disconnect is under way.
C30_Witness ==
    /\ ws_used = ConnIds
    /\ Cardinality(DOMAIN ws.connections) = 2
    /\ \A c \in ConnIds : ws.disc_pending[c] = 0 /\ ws.send_pending[c] = 0
    /\ \E sid \in Sessions :
          /\ DOMAIN ws.sessions = {sid}
          /\ ws.sessions[sid] = DOMAIN ws.connections
    /\ DOMAIN ws.agent_connections # {}
    /\ DOMAIN ws.user_connections # {}

\* C32: whenever an agent has a live connection, the agent index maps the
\* agent to a live connection and the status of its state is not
\* 'disconnected', also after the agent has connected a second time and its
\* older connection has been disconnected.
C32_AgentIndexed ==
    \A a \in WsAgents :
        (\E c \in ConnIds : LiveConn(ws, c) /\ ws.connections[c].agent_id = a) =>
            /\ a \in DOMAIN ws.agent_connections
            /\ LiveConn(ws, ws.agent_connections[a])
            /\ a \in DOMAIN ws.agent_states
            /\ ws.agent_states[a].status # "disconnected"


\***************************************************************************
\* Specification of the unified endpoint (unified_websocket, lines 200-251):
\* clients open WebSockets on /unified/{session_id}, subscribe and
\* unsubscribe, messages are broadcast to a channel, clients go away
\***************************************************************************
InitUni ==
    /\ redis_ok = TRUE
    /\ redis_up = TRUE
    /\ calls = <<>>
    /\ uni = UniEmpty
    /\ AgentsQuiet /\ DocQuiet /\ RateQuiet /\ ChanQuiet /\ WsQuiet /\ SupQuiet

\* Lines 229-243: a client opens a WebSocket never opened before; the
\* endpoint registers it and sends the welcome on it.
UniOpen(websocket, sid) ==
    /\ websocket \notin DOMAIN uni.endpoints
    /\ uni.delivered[websocket] = <<>>
    /\ uni' = [uni_connect(uni, websocket, sid, Nil) EXCEPT
                  !.endpoints = Put(@, websocket, UniConnId(sid)),
                  !.delivered[websocket] = <<Msg("connection_established", 0, sid)>>]
    /\ UNCHANGED <<redis_ok, redis_up, calls, notUni>>

\* Lines 245-247: the client of a running endpoint goes away, receive_text
\* raises WebSocketDisconnect and the endpoint disconnects its connection_id.
UniClose(websocket) ==
    /\ websocket \in DOMAIN uni.endpoints
    /\ uni' = [uni_disconnect(uni, uni.endpoints[websocket]) EXCEPT
                  !.endpoints = Drop(@, websocket)]
    /\ UNCHANGED <<redis_ok, redis_up, calls, notUni>>

\* Lines 276-288: a client sends 'subscribe'; the endpoint subscribes its
\* connection_id and acknowledges.
UniSubscribe(websocket, channel, context_id) ==
    /\ websocket \in DOMAIN uni.endpoints
    /\ uni.sent < MaxUniMsgs
    /\ LET c == uni.endpoints[websocket]
       IN  uni' = [uni_send_to_connection(uni_subscribe(uni, c, channel, context_id), c,
                                          Msg("subscribed", 0, channel))
                      EXCEPT !.sent = @ + 1]
    /\ UNCHANGED <<redis_ok, redis_up, calls, notUni>>

\* Lines 290-302: a client sends 'unsubscribe'.
UniUnsubscribe(websocket, channel, context_id) ==
    /\ websocket \in DOMAIN uni.endpoints
    /\ uni.sent < MaxUniMsgs
    /\ LET c == uni.endpoints[websocket]
       IN  uni' = [uni_send_to_connection(uni_unsubscribe(uni, c, channel, context_id), c,
                                          Msg("unsubscribed", 0, channel))
                      EXCEPT !.sent = @ + 1]
    /\ UNCHANGED <<redis_ok, redis_up, calls, notUni>>

\* broadcast_to_channel is called with a new message.
UniBroadcast(channel, context_id) ==
    /\ uni.sent < MaxUniMsgs
    /\ uni' = [broadcast_to_channel(uni, channel, Msg("data", uni.sent + 1, channel),
                                    context_id, Nil)
                  EXCEPT !.sent = @ + 1]
    /\ UNCHANGED <<redis_ok, redis_up, calls, notUni>>

UniOpenStep == \E websocket \in Sockets, sid \in Sessions : UniOpen(websocket, sid)
UniCloseStep == \E websocket \in Sockets : UniClose(websocket)
UniSubscribeStep ==
    \E websocket \in Sockets, channel \in Channels, context_id \in Contexts \cup {Nil} :
        UniSubscribe(websocket, channel, context_id)
UniUnsubscribeStep ==
    \E websocket \in Sockets, channel \in Channels, context_id \in Contexts \cup {Nil} :
        UniUnsubscribe(websocket, channel, context_id)
UniBroadcastStep ==
    \E channel \in Channels, context_id \in Contexts \cup {Nil} :
        UniBroadcast(channel, context_id)

NextUni ==
    \/ UniOpenStep \/ UniCloseStep
    \/ UniSubscribeStep \/ UniUnsubscribeStep
    \/ UniBroadcastStep

SpecUni == InitUni /\ [][NextUni]_vars

\* The endpoint of the WebSocket is running and the manager sends the frames
\* of its connection_id to it.
UniRegistered(u, websocket) ==
    /\ websocket \in DOMAIN u.endpoints
    /\ u.endpoints[websocket] \in DOMAIN u.connections
    /\ u.connections[u.endpoints[websocket]] = websocket

\* C20: a disconnect of one connection leaves every other live connection
\* of its session as it was: one that was registered is still registered,
\* under the same id, with the subscriptions it had.
C20_DisconnectStep ==
    \A websocket \in DOMAIN uni.endpoints :
        websocket \notin DOMAIN uni'.endpoints =>
            \A other \in DOMAIN uni'.endpoints :
                (uni.endpoints[other] = uni.endpoints[websocket] /\ UniRegistered(uni, other)) =>
                    /\ UniRegistered(uni', other)
                    /\ uni'.subscriptions[uni'.endpoints[other]]
                         = uni.subscriptions[uni.endpoints[other]]
C20_DisconnectLeavesOthers == [][C20_DisconnectStep]_vars



\***************************************************************************
\* Specification of the conversation over the unified endpoint: clients
\* open and close WebSockets, subscribe to and unsubscribe from the
\* channels of a context, and send user messages (handle_message, lines
\* 254-337)
\***************************************************************************
ChatSubscribe(websocket, channel, context_id) ==
    /\ websocket \in DOMAIN uni.endpoints
    /\ uni.sent < MaxChatMsgs
    /\ LET c == uni.endpoints[websocket]
       IN  uni' = [uni_send_to_connection(uni_subscribe(uni, c, channel, context_id), c,
                                          Msg("subscribed", 0, channel))
                      EXCEPT !.sent = @ + 1]
    /\ UNCHANGED <<redis_ok, redis_up, calls, notUni>>

ChatUnsubscribe(websocket, channel, context_id) ==
    /\ websocket \in DOMAIN uni.endpoints
    /\ uni.sent < MaxChatMsgs
    /\ LET c == uni.endpoints[websocket]
       IN  uni' = [uni_send_to_connection(uni_unsubscribe(uni, c, channel, context_id), c,
                                          Msg("unsubscribed", 0, channel))
                      EXCEPT !.sent = @ + 1]
    /\ UNCHANGED <<redis_ok, redis_up, calls, notUni>>

\* Lines 313-337: a client sends a user_message on the conversation
\* channel; calls records which WebSocket sent it and for which context.
ChatUserMessage(websocket, context_id) ==
    /\ websocket \in DOMAIN uni.endpoints
    /\ uni.sent < MaxChatMsgs
    /\ uni' = [handle_user_message(uni, uni.endpoints[websocket],
                                   Msg("ai_message", uni.sent + 1, context_id), context_id)
                  EXCEPT !.sent = @ + 1]
    /\ calls' = Append(calls, [op |-> "user_message", websocket |-> websocket,
                               context |-> context_id])
    /\ UNCHANGED <<redis_ok, redis_up, notUni>>

ChatOpenStep == \E websocket \in ChatSockets, sid \in Sessions : UniOpen(websocket, sid)
ChatSubscribeStep ==
    \E websocket \in Sockets, channel \in ChatChannels, context_id \in Contexts \cup {Nil} :
        ChatSubscribe(websocket, channel, context_id)
ChatUnsubscribeStep ==
    \E websocket \in Sockets, channel \in ChatChannels, context_id \in Contexts \cup {Nil} :
        ChatUnsubscribe(websocket, channel, context_id)
ChatUserMessageStep ==
    \E websocket \in Sockets, context_id \in Contexts \cup {Nil} :
        ChatUserMessage(websocket, context_id)

NextChat ==
    \/ ChatOpenStep \/ UniCloseStep
    \/ ChatSubscribeStep \/ ChatUnsubscribeStep
    \/ ChatUserMessageStep

SpecChat == InitUni /\ [][NextChat]_vars

\* The WebSocket is a live connection that holds a subscription to the
\* channel for the context.
SubscribedTo(u, websocket, channel, context_id) ==
    /\ websocket \in DOMAIN u.endpoints
    /\ u.endpoints[websocket] \in DOMAIN u.subscriptions
    /\ ChannelKey(channel, context_id) \in u.subscriptions[u.endpoints[websocket]]

\* Every live WebSocket is the one registered under its connection id.
NoSharedIds(u) == \A websocket \in DOMAIN u.endpoints : UniRegistered(u, websocket)

\* C29: a user_message with a context is answered by one ai_message on
\* every connection subscribed to the conversation of the context, and by
\* none on a connection that holds no subscription for the context; one
\* without a context by one ai_message on the sending connection and on no
\* other.  Stated for the states in which no two live connections share an
\* id.
C29_UserMessageStep ==
    (Len(calls') = Len(calls) + 1 /\ NoSharedIds(uni)) =>
        LET call == calls'[Len(calls')]
            answer == Msg("ai_message", uni'.sent, call.context)
            Answered(websocket) ==
                uni'.delivered[websocket] = Append(uni.delivered[websocket], answer)
            Untouched(websocket) ==
                uni'.delivered[websocket] = uni.delivered[websocket]
        IN  \A websocket \in Sockets :
                IF call.context = Nil
                THEN IF websocket = call.websocket
                     THEN Answered(websocket) ELSE Untouched(websocket)
                ELSE /\ SubscribedTo(uni, websocket, "conversation", call.context)
                           => Answered(websocket)
                     /\ (\A channel \in ChatChannels :
                            ~SubscribedTo(uni, websocket, channel, call.context))
                           => Untouched(websocket)
C29_UserMessageAnswered == [][C29_UserMessageStep]_vars

\* The connection ids the router knows of: the registered ones and the
\* members of the context sets.
UniKnownIds(u) ==
    DOMAIN u.subscriptions \cup UNION {u.context_connections[x] : x \in DOMAIN u.context_connections}

\* The context sets agree with the subscription keys: a connection is a
\* member of a context's connection set if and only if its subscription set
\* holds at least one key 'channel:context' of that context.
ContextSetsMatchKeys(u) ==
    \A context_id \in Contexts : \A c \in UniKnownIds(u) :
        (context_id \in DOMAIN u.context_connections /\ c \in u.context_connections[context_id])
            <=> (/\ c \in DOMAIN u.subscriptions
                 /\ \E channel \in ChatChannels :
                        ChannelKey(channel, context_id) \in u.subscriptions[c])

\* C35: subscribe, unsubscribe and disconnect keep the context sets in
\* agreement with the subscription keys: a step that opens no connection
\* and starts where they agree ends where they agree.
C35_ContextStep ==
    (ContextSetsMatchKeys(uni) /\ DOMAIN uni'.endpoints \subseteq DOMAIN uni.endpoints) =>
        ContextSetsMatchKeys(uni')

C35_ContextSetMatchesKeys == [][C35_ContextStep]_vars


\***************************************************************************
\* Supervisor (orchestration/supervisor.py)
\***************************************************************************
ROUTE_TO_AGENT == "route_to_agent"
REQUEST_APPROVAL == "request_approval"
GATHER_MORE_INFO == "gather_more_info"
COMPLETE == "complete"
INTERRUPT == "interrupt"
END == "END"

\* A line of a Reasoning response: the words _parse_decision looks for that
\* occur in its lower-cased text, and the stripped text after its first colon.
Line(tokens, value) == [tokens |-> tokens, value |-> value]

\* Responses of the Reasoning collaborator.
RespRoute(a) ==
    << Line({"action:", "route", "agent"}, ROUTE_TO_AGENT),
       Line({"agent:"}, a),
       Line({"reason:"}, "delegate") >>
RespRouteNoAgent == << Line({"action:", "route", "agent"}, ROUTE_TO_AGENT) >>
RespGather == << Line({"action:", "info", "gather"}, GATHER_MORE_INFO) >>
RespApproval == << Line({"action:", "approval"}, REQUEST_APPROVAL),
                   Line({"reason:"}, "risky") >>
RespComplete == << Line({"action:", "complete"}, COMPLETE) >>
RespEmpty == << >>
Responses ==
    {RespRoute(a) : a \in SupAgents}
        \cup {RespRouteNoAgent, RespGather, RespApproval, RespComplete, RespEmpty}

\* What an agent's execute does: a completion event with a result, a
\* completion event without one, no completion event, an exception, or two
\* completion events with a result each.
AgentOutcomes ==
    {"complete_result", "complete_empty", "no_complete", "raise", "complete_results"}

\* The completion events of the stream execute yields (base.py, lines
\* 175-227: the events of the agent, then a 'complete' event that carries
\* no result), in the order the loop of line 240 meets them.
OutcomeEvents(outcome) ==
    IF outcome = "complete_result" THEN <<"complete_result", "complete_empty">>
    ELSE IF outcome = "complete_results"
    THEN <<"complete_result", "complete_result", "complete_empty">>
    ELSE IF outcome = "complete_empty" THEN <<"complete_empty">>
    ELSE <<>>

\* SupervisorDecision (lines 59-66); task is a list of at most one task.
Decision(action, a, reason) ==
    [action |-> action, agent |-> a, reason |-> reason,
     task |-> <<>>, requires_approval |-> FALSE]

\* Lines 464-472: the action an 'action:' line gives.
ParseAction(tokens, action) ==
    IF "route" \in tokens \/ "agent" \in tokens THEN ROUTE_TO_AGENT
    ELSE IF "approval" \in tokens THEN REQUEST_APPROVAL
    ELSE IF "info" \in tokens \/ "gather" \in tokens THEN GATHER_MORE_INFO
    ELSE IF "complete" \in tokens \/ "done" \in tokens THEN COMPLETE
    ELSE action

\* The loop of lines 461-491 over the lines left.
RECURSIVE ParseLines(_, _)
ParseLines(lines, d) ==
    IF lines = <<>> THEN d
    ELSE LET l == Head(lines)
             d1 == IF "action:" \in l.tokens
                   THEN [d EXCEPT !.action = ParseAction(l.tokens, @)]
                   ELSE IF "agent:" \in l.tokens THEN [d EXCEPT !.agent = l.value]
                   ELSE IF "reason:" \in l.tokens THEN [d EXCEPT !.reason = l.value]
                   ELSE d
         IN  ParseLines(Tail(lines), d1)

\* _parse_decision (lines 444-498).
ParseDecision(response) == ParseLines(response, Decision(COMPLETE, Nil, "No reason provided"))

\* A decision that asks for more information when Reasoning fails.
DecisionOnErrorGather == Decision(GATHER_MORE_INFO, Nil, "Error making decision")

\* Lines 434-440: the decision when the call of Reasoning raised.
DecisionOnError == Decision(COMPLETE, Nil, "Error making decision")

\* _make_decision (lines 372-442); outcome is "raise" or a response.
MakeDecision(raises, response) ==
    IF raises THEN DecisionOnError ELSE ParseDecision(response)

\* A completion test that leaves out the test of the task lists.
ShouldCompleteNoTasks(state, max_iterations) ==
    \/ state.metadata.iteration >= max_iterations
    \/ state.metadata.complete

\* _should_complete (lines 500-523).
ShouldComplete(state, max_iterations) ==
    \/ state.metadata.iteration >= max_iterations
    \/ state.task_queue = <<>> /\ state.completed_tasks # <<>>
    \/ state.metadata.complete

\* _supervisor_router (lines 359-370) and the edges of lines 125-135.
SupervisorRouter(state) ==
    LET action == IF state.metadata.action = Nil THEN COMPLETE ELSE state.metadata.action
    IN  CASE action = ROUTE_TO_AGENT -> "route_agent"
          [] action = REQUEST_APPROVAL -> "approval"
          [] action = GATHER_MORE_INFO -> "gather_info"
          [] action = COMPLETE -> "finalize"
          [] action = INTERRUPT -> END

AIMessage(content, name) == [role |-> "ai", content |-> content, name |-> name]
SystemMessage(content) == [role |-> "system", content |-> content, name |-> Nil]
HumanMessage(content) == [role |-> "human", content |-> content, name |-> Nil]

NoApproval == [present |-> FALSE, agent |-> Nil, reason |-> Nil]
NoDecision == Decision(Nil, Nil, Nil)

\* run (lines 540-550): the initial state for one message and a config.
InitialState(messages, iteration, complete) ==
    [messages |-> messages, current_agent |-> Nil, task_queue |-> <<>>,
     completed_tasks |-> <<>>, approval_pending |-> NoApproval,
     interrupt_reason |-> Nil,
     final_output |-> [text |-> Nil, tasks |-> <<>>],
     metadata |-> [action |-> Nil, last_decision |-> NoDecision,
                   iteration |-> iteration, complete |-> complete]]

\* _supervisor_node (lines 145-195) on a state with no approval pending that
\* should not complete, for the decision made.
ApplyDecision(state, decision) ==
    [state EXCEPT
        !.metadata.last_decision = decision,
        !.metadata.action = decision.action,
        !.current_agent = IF decision.agent \notin {Nil, ""} THEN decision.agent ELSE @,
        !.task_queue = @ \o decision.task,
        !.approval_pending =
            IF decision.requires_approval
            THEN [present |-> TRUE, agent |-> decision.agent, reason |-> decision.reason]
            ELSE @]

\* Lines 243-260: the state after one event of the agent's execution.
AgentEvent(state, agent_id, outcome) ==
    IF outcome # "complete_result" THEN state
    ELSE LET s1 == [state EXCEPT !.messages = Append(@, AIMessage("result", agent_id))]
         IN  IF s1.task_queue = <<>> THEN s1
             ELSE [s1 EXCEPT
                     !.task_queue = SubSeq(@, 1, Len(@) - 1),
                     !.completed_tasks =
                         Append(@, [s1.task_queue[Len(s1.task_queue)] EXCEPT
                                       !.completed_by = agent_id, !.result = "result"])]

\* Lines 240-260: the loop over the events of the execution.
RECURSIVE AgentEvents(_, _, _)
AgentEvents(state, agent_id, events) ==
    IF events = <<>> THEN state
    ELSE AgentEvents(AgentEvent(state, agent_id, Head(events)), agent_id, Tail(events))

\* A route node that says nothing of an absent agent and lets the agent's
\* exception leave the state as it is.
RouteToAgentSilent(state, registered, outcome) ==
    IF state.current_agent = Nil \/ state.current_agent \notin registered \/ outcome = "raise"
    THEN state
    ELSE AgentEvents(state, state.current_agent, OutcomeEvents(outcome))

\* _route_to_agent_node (lines 197-271).
RouteToAgent(state, registered, outcome) ==
    IF state.current_agent = Nil THEN state
    ELSE IF state.current_agent \notin registered
    THEN [state EXCEPT !.messages = Append(@, AIMessage("Error: Agent not available", Nil))]
    ELSE IF outcome = "raise"
    THEN [state EXCEPT !.messages = Append(@, AIMessage("Agent encountered an error", Nil))]
    ELSE AgentEvents(state, state.current_agent, OutcomeEvents(outcome))

\* An approval node that notes the interrupt reason and leaves the action
\* of the state as it was.
ApprovalKeepsAction(state, auto_approve) ==
    IF ~state.approval_pending.present THEN state
    ELSE IF auto_approve
    THEN [state EXCEPT !.approval_pending = NoApproval,
                       !.messages = Append(@, SystemMessage("Approved"))]
    ELSE [state EXCEPT !.interrupt_reason = "Approval required"]

\* _approval_node (lines 273-304).
Approval(state, auto_approve) ==
    IF ~state.approval_pending.present THEN state
    ELSE IF auto_approve
    THEN [state EXCEPT !.approval_pending = NoApproval,
                       !.messages = Append(@, SystemMessage("Approved"))]
    ELSE [state EXCEPT !.interrupt_reason = "Approval required",
                       !.metadata.action = INTERRUPT]

\* _gather_info_node (lines 306-326).
GatherInfo(state) ==
    [state EXCEPT !.messages = Append(@, AIMessage("I need more information", Nil))]

\* _finalize_node (lines 328-357).
Finalize(state) ==
    LET out == IF state.completed_tasks # <<>>
               THEN [text |-> "Completed tasks", tasks |-> state.completed_tasks]
               ELSE [text |-> "Workflow completed", tasks |-> <<>>]
    IN  [state EXCEPT !.final_output = out,
                      !.messages = Append(@, AIMessage(out.text, Nil))]


\***************************************************************************
\* Specification of the Supervisor: one run of the graph of _build_graph
\* (lines 105-143), node by node, with a Reasoning collaborator and agents
\* that may answer anything
\***************************************************************************
\* sup_env: the agents the registry holds, the auto_approve option and the
\* iteration limit of the constructor.  sup_hist: the passes through the
\* supervisor node, the outcome of each Reasoning call, the agent executions,
\* and the iteration the config of the run gave.
InitSup ==
    /\ redis_ok = TRUE
    /\ redis_up = TRUE
    /\ calls = <<>>
    /\ sup_env \in [registered : {{"researcher"}}, auto_approve : BOOLEAN,
                    max_iterations : 1..MaxIterations]
    /\ \E iteration \in 0..MaxIterations, complete \in BOOLEAN :
          /\ sup = InitialState(<<HumanMessage("q")>>, iteration, complete)
          /\ sup_hist = [passes |-> 0, llm_log |-> <<>>, executions |-> <<>>,
                         iteration0 |-> iteration]
    /\ sup_pc = "supervisor"
    /\ AgentsQuiet /\ DocQuiet /\ RateQuiet /\ ChanQuiet /\ WsQuiet /\ UniQuiet

\* The supervisor node and the router that follows it.
SupervisorNode ==
    /\ sup_pc = "supervisor"
    /\ sup_hist.passes < MaxPasses
    /\ IF sup.approval_pending.present
       THEN /\ sup' = sup
            /\ sup_hist' = [sup_hist EXCEPT !.passes = @ + 1]
       ELSE IF ShouldComplete(sup, sup_env.max_iterations)
       THEN /\ sup' = [sup EXCEPT !.metadata.action = COMPLETE]
            /\ sup_hist' = [sup_hist EXCEPT !.passes = @ + 1]
       ELSE \E raises \in BOOLEAN, response \in Responses :
            /\ raises => response = RespEmpty
            /\ sup' = ApplyDecision(sup, MakeDecision(raises, response))
            /\ sup_hist' = [sup_hist EXCEPT
                               !.passes = @ + 1,
                               !.llm_log = Append(@, IF raises THEN "raise" ELSE "ok")]
    /\ sup_pc' = SupervisorRouter(sup')
    /\ UNCHANGED <<redis_ok, redis_up, calls, sup_env, notSup>>

RouteAgentNode ==
    /\ sup_pc = "route_agent"
    /\ LET executed == sup.current_agent # Nil /\ sup.current_agent \in sup_env.registered
       IN  \E outcome \in AgentOutcomes :
            /\ ~executed => outcome = "no_complete"
            /\ sup' = RouteToAgent(sup, sup_env.registered, outcome)
            /\ sup_hist' =
                  IF executed
                  THEN [sup_hist EXCEPT !.executions =
                           Append(@, [agent |-> sup.current_agent, outcome |-> outcome])]
                  ELSE sup_hist
    /\ sup_pc' = "supervisor"
    /\ UNCHANGED <<redis_ok, redis_up, calls, sup_env, notSup>>

ApprovalNode ==
    /\ sup_pc = "approval"
    /\ sup' = Approval(sup, sup_env.auto_approve)
    /\ sup_pc' = "supervisor"
    /\ UNCHANGED <<redis_ok, redis_up, calls, sup_env, sup_hist, notSup>>

GatherInfoNode ==
    /\ sup_pc = "gather_info"
    /\ sup' = GatherInfo(sup)
    /\ sup_pc' = "supervisor"
    /\ UNCHANGED <<redis_ok, redis_up, calls, sup_env, sup_hist, notSup>>

FinalizeNode ==
    /\ sup_pc = "finalize"
    /\ sup' = Finalize(sup)
    /\ sup_pc' = END
    /\ UNCHANGED <<redis_ok, redis_up, calls, sup_env, sup_hist, notSup>>

NextSup ==
    \/ SupervisorNode \/ RouteAgentNode \/ ApprovalNode
    \/ GatherInfoNode \/ FinalizeNode

SpecSup == InitSup /\ [][NextSup]_vars


\***************************************************************************
\* Properties of the Supervisor
\***************************************************************************
\* C8: the iteration count of the state has gone up by one with every pass
\* through the supervisor node, and so a run that has not reached FINALIZE
\* or an interrupt has made fewer than max_iterations passes.
C8_IterationCountsPasses ==
    /\ sup.metadata.iteration = sup_hist.iteration0 + sup_hist.passes
    /\ sup_pc \notin {"finalize", END} => sup_hist.passes < sup_env.max_iterations

\* What is true of the passes: the iteration count never moves.
C8_IterationNeverMoves == sup.metadata.iteration = sup_hist.iteration0

\* The first decision of the run routed to a registered agent, whose
\* execution gave a completion event with a result.
DelegationSucceeded ==
    /\ Len(sup_hist.executions) >= 1
    /\ sup_hist.executions[1].outcome = "complete_result"
    /\ sup_hist.passes >= 1

\* C9: when a run whose first decision routed to a registered agent that
\* completed with a result has been through FINALIZE, its final output names
\* that agent as the one that completed the task.
C9_FinalOutputNamesAgent ==
    (DelegationSucceeded /\ sup_pc = END) =>
        \E i \in 1..Len(sup.final_output.tasks) :
            sup.final_output.tasks[i].completed_by = sup_hist.executions[1].agent

\* What is true instead: no task is ever queued, so none is ever completed
\* and the final output is always the bare 'Workflow completed'.
C9_NoTaskEverCompleted ==
    /\ sup.task_queue = <<>> /\ sup.completed_tasks = <<>>
    /\ sup_pc = END => sup.final_output = [text |-> "Workflow completed", tasks |-> <<>>]

\* C10: when the first (and so every) call of Reasoning raises, the run goes
\* from the supervisor node to finalize in its first pass and ends there:
\* one call of Reasoning, no agent executed, the decision recorded is
\* COMPLETE with the error as its reason.
C10_ReasoningFailureFinalizes ==
    (Len(sup_hist.llm_log) >= 1 /\ sup_hist.llm_log[1] = "raise") =>
        /\ sup_hist.passes = 1
        /\ Len(sup_hist.llm_log) = 1
        /\ sup_hist.executions = <<>>
        /\ sup_pc \in {"finalize", END}
        /\ sup.metadata.action = COMPLETE
        /\ sup.metadata.last_decision.action = COMPLETE
        /\ sup.metadata.last_decision.reason = "Error making decision"
        /\ sup_pc = END => sup.final_output.text = "Workflow completed"

\* Reasoning raised and the run has ended.
C10_Witness ==
    /\ sup_hist.llm_log = <<"raise">>
    /\ sup_pc = END
    /\ sup.final_output.text # Nil


\***************************************************************************
\* Specification of the graph on a saved state: the compiled graph
\* (self.app, lines 100-103, compiled with a checkpointer) is entered at
\* its entry point on a ConversationState (lines 46-56) of any content, as
\* when a run that was halted is taken up again
\***************************************************************************
\* A task of task_queue: a dict with a query; lines 257-259 write
\* completed_by and result into it when it completes.
Task(query) == [query |-> query, completed_by |-> Nil, result |-> Nil]
TaskQueues == {<<>>, <<Task("t1")>>, <<Task("t1"), Task("t2")>>}
CompletedLists == {<<>>, <<[query |-> "t0", completed_by |-> "writer", result |-> "result"]>>}

\* approval_pending as lines 187-191 write it.
PendingApproval == [present |-> TRUE, agent |-> "researcher", reason |-> "risky"]

SupervisorActions == {ROUTE_TO_AGENT, REQUEST_APPROVAL, GATHER_MORE_INFO, COMPLETE, INTERRUPT}

\* ConversationState (lines 46-56) with final_output and interrupt_reason
\* unset.
ConversationStates ==
    { [InitialState(<<HumanMessage("q")>>, iteration, complete) EXCEPT
          !.current_agent = a,
          !.task_queue = queue,
          !.completed_tasks = done,
          !.approval_pending = approval,
          !.metadata.action = action] :
        iteration \in {0, MaxIterations}, complete \in BOOLEAN,
        a \in {Nil, "researcher", "ghost"},
        queue \in TaskQueues, done \in CompletedLists,
        approval \in {NoApproval, PendingApproval},
        action \in {Nil} \cup SupervisorActions }

InitGraph ==
    /\ redis_ok = TRUE
    /\ redis_up = TRUE
    /\ calls = <<>>
    /\ sup_env \in [registered : {{"researcher"}}, auto_approve : BOOLEAN,
                    max_iterations : 1..MaxIterations]
    /\ sup \in ConversationStates
    /\ sup_hist = [passes |-> 0, llm_log |-> <<>>, executions |-> <<>>,
                   iteration0 |-> sup.metadata.iteration]
    /\ sup_pc = "supervisor"
    /\ AgentsQuiet /\ DocQuiet /\ RateQuiet /\ ChanQuiet /\ WsQuiet /\ UniQuiet

SpecGraph == InitGraph /\ [][NextSup]_vars

\* A pass through the supervisor node.
IsSupervisorPass == sup_pc = "supervisor" /\ sup_hist'.passes = sup_hist.passes + 1

\* C24: a pass through the supervisor node with an approval pending is a
\* no-op: Reasoning is not called, the state is left as it was, and the run
\* does not go on to route_agent, gather_info or finalize.
C24_PendingStep ==
    (IsSupervisorPass /\ sup.approval_pending.present) =>
        /\ sup_hist'.llm_log = sup_hist.llm_log
        /\ sup' = sup
        /\ sup_pc' \notin {"route_agent", "gather_info", "finalize"}
C24_PendingNodeStep ==
    (IsSupervisorPass /\ sup.approval_pending.present) =>
        /\ sup_hist'.llm_log = sup_hist.llm_log
        /\ sup' = sup
        /\ sup_pc' = SupervisorRouter(sup)
C24_PendingNodeIsNoOp == [][C24_PendingNodeStep]_vars

\* C25: a pass through the supervisor node with no approval pending goes to
\* finalize without calling Reasoning when the task queue is empty and a
\* task has completed, or the completion flag is set, or the iteration
\* count has reached max_iterations; when none of the three holds it calls
\* Reasoning once.
C25_CompletionStep ==
    (IsSupervisorPass /\ ~sup.approval_pending.present) =>
        IF \/ sup.task_queue = <<>> /\ sup.completed_tasks # <<>>
           \/ sup.metadata.complete
           \/ sup.metadata.iteration >= sup_env.max_iterations
        THEN /\ sup_pc' = "finalize"
             /\ sup_hist'.llm_log = sup_hist.llm_log
        ELSE Len(sup_hist'.llm_log) = Len(sup_hist.llm_log) + 1
C25_CompletionOrReasoning == [][C25_CompletionStep]_vars

\* The first pass asked Reasoning, the agent completed the queued task, and
\* the second pass went to finalize on the task lists alone.
C25_Witness ==
    /\ sup_pc = "finalize"
    /\ sup_hist.passes = 2
    /\ Len(sup_hist.llm_log) = 1
    /\ Len(sup_hist.executions) = 1
    /\ sup.task_queue = <<>>
    /\ sup.completed_tasks # <<>>
    /\ sup.completed_tasks[Len(sup.completed_tasks)].completed_by = "researcher"
    /\ ~sup.metadata.complete
    /\ sup.metadata.iteration < sup_env.max_iterations
    /\ ~sup.approval_pending.present

\* C26: the route_agent node always hands the run back to the supervisor
\* node; for an agent the registry does not hold it appends an error
\* message and executes nothing; when the execution raises it appends a
\* failure message; it changes nothing else but the messages and the task
\* lists.
C26_RouteStep ==
    sup_pc = "route_agent" =>
        /\ sup_pc' = "supervisor"
        /\ (sup.current_agent # Nil /\ sup.current_agent \notin sup_env.registered) =>
              /\ sup'.messages = Append(sup.messages, AIMessage("Error: Agent not available", Nil))
              /\ sup_hist'.executions = sup_hist.executions
        /\ (/\ Len(sup_hist'.executions) = Len(sup_hist.executions) + 1
            /\ sup_hist'.executions[Len(sup_hist'.executions)].outcome = "raise") =>
              sup'.messages = Append(sup.messages, AIMessage("Agent encountered an error", Nil))
        /\ sup'.final_output = sup.final_output
        /\ sup'.interrupt_reason = sup.interrupt_reason
IsExecution ==
    /\ sup_pc = "route_agent"
    /\ Len(sup_hist'.executions) = Len(sup_hist.executions) + 1

\* C37: no agent is executed while an approval is pending: in every step
\* in which the route_agent node executes an agent, approval_pending is
\* unset.
C37_ExecutionStep == IsExecution => ~sup.approval_pending.present
TaskPopped(state, agent_id) ==
    /\ sup'.task_queue = SubSeq(state.task_queue, 1, Len(state.task_queue) - 1)
    /\ Len(sup'.completed_tasks) = Len(state.completed_tasks) + 1
    /\ SubSeq(sup'.completed_tasks, 1, Len(state.completed_tasks)) = state.completed_tasks
    /\ sup'.completed_tasks[Len(sup'.completed_tasks)].query
         = state.task_queue[Len(state.task_queue)].query
    /\ sup'.completed_tasks[Len(sup'.completed_tasks)].completed_by = agent_id

\* C27: when the event stream of the agent executed ends with a completion
\* event, a message attributed to the agent is appended and the newest
\* queued task (if there is one) moves to completed_tasks, completed by
\* that agent; when the execution raises or gives no completion event, the
\* task lists stay as they were.
C27_CompletionStep ==
    IsExecution =>
        LET e == sup_hist'.executions[Len(sup_hist'.executions)]
        IN  IF e.outcome \in {"complete_result", "complete_empty"}
            THEN /\ Len(sup'.messages) = Len(sup.messages) + 1
                 /\ sup'.messages[Len(sup'.messages)].role = "ai"
                 /\ sup'.messages[Len(sup'.messages)].name = e.agent
                 /\ sup.task_queue # <<>> => TaskPopped(sup, e.agent)
            ELSE e.outcome # "complete_results" =>
                    /\ sup'.task_queue = sup.task_queue
                    /\ sup'.completed_tasks = sup.completed_tasks
C27_CompletionRecorded == [][C27_CompletionStep]_vars

\* What is true: the message and the completed task follow a completion
\* event that carries a result (and follow each of them when the stream
\* has two); a completion event without one leaves the whole state as it
\* was.
C27_ResultStep ==
    IsExecution =>
        LET e == sup_hist'.executions[Len(sup_hist'.executions)]
        IN  IF e.outcome = "complete_result"
            THEN /\ sup'.messages = Append(sup.messages, AIMessage("result", e.agent))
                 /\ IF sup.task_queue # <<>> THEN TaskPopped(sup, e.agent)
                    ELSE /\ sup'.task_queue = <<>>
                         /\ sup'.completed_tasks = sup.completed_tasks
            ELSE IF e.outcome = "complete_results"
            THEN sup'.messages = Append(Append(sup.messages, AIMessage("result", e.agent)),
                                        AIMessage("result", e.agent))
            ELSE /\ sup'.task_queue = sup.task_queue
                 /\ sup'.completed_tasks = sup.completed_tasks
                 /\ e.outcome # "raise" => sup' = sup
C27_ResultRecorded == [][C27_ResultStep]_vars

\* The messages the step has appended that are attributed to the agent.
AgentMessagesAdded(agent_id) ==
    {i \in (Len(sup.messages) + 1)..Len(sup'.messages) :
        sup'.messages[i].role = "ai" /\ sup'.messages[i].name = agent_id}

\* C40: one execution of an agent by the route_agent node moves at most
\* one task from task_queue to completed_tasks and appends at most one
\* message attributed to the agent, whatever the stream of events.
C40_RouteStep ==
    IsExecution =>
        LET e == sup_hist'.executions[Len(sup_hist'.executions)]
        IN  /\ Len(sup'.task_queue) >= Len(sup.task_queue) - 1
            /\ Len(sup'.completed_tasks) <= Len(sup.completed_tasks) + 1
            /\ Cardinality(AgentMessagesAdded(e.agent)) <= 1
C40_AtMostOneTaskPerStep == [][C40_RouteStep]_vars

\* The same for the tasks alone.
C40_TasksStep ==
    IsExecution =>
        /\ Len(sup'.task_queue) >= Len(sup.task_queue) - 1
        /\ Len(sup'.completed_tasks) <= Len(sup.completed_tasks) + 1
C40_TasksOnly == [][C40_TasksStep]_vars

\* C28: the approval node on a pending approval: with auto_approve it
\* clears the approval, sets no interrupt reason and hands the run back to
\* the supervisor node; without, it sets the interrupt reason and leaves the
\* approval pending, and from then on the only step of the run is the one
\* to END, which changes nothing: no agent is executed, Reasoning is not
\* called, and the final output stays unset.
C28_ApprovalStep ==
    /\ (sup_pc = "approval" /\ sup.approval_pending.present) =>
          /\ sup_pc' = "supervisor"
          /\ IF sup_env.auto_approve
             THEN /\ ~sup'.approval_pending.present
                  /\ sup'.interrupt_reason = Nil
                  /\ sup'.metadata = sup.metadata
             ELSE /\ sup'.approval_pending = sup.approval_pending
                  /\ sup'.interrupt_reason # Nil
    /\ sup.interrupt_reason # Nil =>
          /\ sup_pc = "supervisor" /\ sup_pc' = END
          /\ sup' = sup
          /\ sup_hist'.llm_log = sup_hist.llm_log
          /\ sup_hist'.executions = sup_hist.executions
          /\ sup.final_output.text = Nil
C28_ApprovalClearsOrInterrupts == [][C28_ApprovalStep]_vars

\* A run that was halted by the approval node has ended, its approval still
\* pending and its final output unset.
C28_Witness ==
    /\ sup_pc = END
    /\ sup.interrupt_reason # Nil
    /\ sup.approval_pending.present
    /\ sup.metadata.action = INTERRUPT
    /\ sup.final_output.text = Nil
    /\ ~sup_env.auto_approve

\***************************************************************************
\* Specification of the atomic operations while the store is not connected
\* (core/atomic_operations.py, core/redis_manager.py, main.py)
\***************************************************************************
\* connect (redis_manager.py, lines 25-44) as initialize_redis runs it
\* (main.py, lines 81-88): the client is made (line 39) before the PING
\* (line 42); when the store does not answer, the PING raises, the start-up
\* logs the failure and goes on, and the client stays in place.
RedisConnect ==
    /\ ~redis_ok
    /\ redis_ok' = TRUE
    /\ UNCHANGED <<redis_up, calls, agentVars, docVars, rateVars, chanVars, wsVars, uni, supVars>>

\* The process has started and the store does not answer.
InitDown ==
    /\ redis_ok = FALSE
    /\ redis_up = FALSE
    /\ calls = <<>>
    /\ AgentsInit
    /\ \A a \in Agents : agent[a].status = "idle"
    /\ doc = [d \in Docs |-> [present |-> FALSE, version |-> 0, last_editor |-> Nil,
                              updated_at |-> 0]]
    /\ doc_history = [d \in Docs |-> <<>>]
    /\ doc_lock = [d \in Docs |-> Nil]
    /\ doc_release = {}
    /\ rate_set = {}
    /\ rate_ttl = 0
    /\ rate_now = MaxWindow
    /\ rate_cfg = [limit |-> MaxLimit, window |-> MaxWindow]
    /\ rate_admitted = <<>>
    /\ chan_seq = 0
    /\ chan_log = {}
    /\ chan_pub = <<>>
    /\ ws = WsEmpty /\ ws_broken = {} /\ ws_used = {} /\ ws_hist = Nil
    /\ uni = UniEmpty
    /\ SupQuiet

NextDown ==
    \/ RedisConnect
    \/ AssignStep \/ CoordinateStep \/ EditStep
    \/ check_rate_limit_atomic
    \/ NextChan

SpecDown == InitDown /\ [][NextDown]_vars

\* The keys of the store.
StoreKeys ==
    <<agent, task_store, agent_tasks, coord, coord_members, doc, doc_history, doc_lock,
      rate_set, rate_ttl, chan_seq, chan_log>>

\* The step is a call of one of the five atomic operations.
IsAtomicCall == Len(calls') = Len(calls) + 1

\* C39: while the store is not connected no atomic operation raises or
\* changes any state: assign_task, apply_document_edit, coordinate_agents
\* and ordered_publish return a failure, and rate_limit admits the call and
\* returns (true, limit).
C39_DownStep ==
    (IsAtomicCall /\ ~(redis_ok /\ redis_up)) =>
        LET c == calls'[Len(calls')]
        IN  /\ StoreKeys' = StoreKeys
            /\ c.op # "raise"
            /\ c.op = "rate_limit" => (c.ok /\ c.remaining = rate_cfg.limit)
            /\ c.op # "rate_limit" => ~c.ok
C39_DownNeverRaises == [][C39_DownStep]_vars

\* What is true: the statement holds as long as connect has not made the
\* client, and afterwards no operation changes the store.
C39_NoClientStep ==
    (IsAtomicCall /\ ~(redis_ok /\ redis_up)) =>
        LET c == calls'[Len(calls')]
        IN  /\ StoreKeys' = StoreKeys
            /\ ~redis_ok =>
                  /\ c.op # "raise"
                  /\ c.op = "rate_limit" => (c.ok /\ c.remaining = rate_cfg.limit)
                  /\ c.op # "rate_limit" => ~c.ok
C39_NoClientNeverRaises == [][C39_NoClientStep]_vars

====
